---- MODULE Spec2Model ----
(***************************************************************************)
(* Model of the composition service: the token/session lifecycle kept in   *)
(* Redis (login, refresh, logout, AuthMiddleware) and the composition      *)
(* workflow kept in the relational store (add item, form, complete,        *)
(* reject, delete, update fields, calculation callback, listing).          *)
(*                                                                         *)
(* Time is a logical clock `now` (one tick = one second of time.Now()).    *)
(* A request handler that issues one SQL statement is one action; a        *)
(* handler that reads and then writes in separate statements is a worker   *)
(* that takes one step per statement, so that other requests interleave.   *)
(***************************************************************************)
EXTENDS Integers, Sequences, FiniteSets, Bags, TLC

VARIABLES
    now,          \* time.Now(), in ticks
    redisClient,  \* repo.GetRedisClient() != nil (fixed by NewRepository)
    issued,       \* every token the server has signed so far: [tok, use]
    blacklist,    \* Redis keys jwt:blacklist:<token>  : token -> expiry instant
    refreshStore, \* Redis keys refresh:token:<uid>    : uid -> [tok, exp] or absent
    sessions,     \* Redis keys user:session:<uid>     : uid -> expiry instant (0 = absent, -1 = no TTL)
    comps,        \* table compositions: sequence of rows, id = index
    items,        \* table compositor_intervals: set of rows [cid, iid, amount, row]
    pairKey,      \* (composition_id, interval_id) is the key of compositor_intervals
                  \* (fixed by the table definition, which the source does not show)
    workers,      \* per in-flight request: the handler's position and locals
    calculations, \* the calculation goroutines that have not returned: a bag of
                  \* composition ids, one copy for each goroutine
    last          \* the response of the request that finished last

vars == <<now, redisClient, issued, blacklist, refreshStore, sessions,
          comps, items, pairKey, workers, calculations, last>>

authVars == <<redisClient, issued, blacklist, refreshStore, sessions>>
flowVars == <<comps, items, workers, calculations>>

----------------------------------------------------------------------------
(* Bounds of the model *)

MaxTime == 3          \* the clock stops here (authentication runs)
MaxFlowTime == 2      \* the clock stops here (workflow runs)
MaxComp == 2          \* rows the compositions table may hold
SeqComp == 1          \* the same, in the runs that follow one composition
MaxTokens == 1        \* tokens a run of the token codec keeps
MaxCalculations == 2  \* goroutines in flight a run keeps for one composition
MaxRows == 3          \* the highest number a row of one pair gets

(* Configuration (internal/app/config/config.go).  The lifetimes come from *)
(* JWT_ACCESS_EXPIRE and JWT_REFRESH_EXPIRE (defaults 24h and 168h); here   *)
(* they are counted in clock ticks, the access token being the shorter.     *)
JWTAccessExpire == 1
JWTRefreshExpire == 2
JWTSecret == "jwt-secret"

Users == {1, 2}
Intervals == {1, 2}
Amounts == {1, 2}
Workers == {1, 2}

\* table users: id 2 is the moderator account
UserRow(u) == [User_ID |-> u, Login |-> u, IsModerator |-> (u = 2)]

----------------------------------------------------------------------------
(* TokenCodec: utils.GenerateAccessToken / GenerateRefreshToken /           *)
(* ValidateToken.  A token string is determined by its claims and the key  *)
(* it was signed with (HS256 is deterministic), so it is modelled as that  *)
(* record.                                                                 *)

GenerateAccessToken(user, secret, expiresIn) ==
    [uid |-> user.User_ID, login |-> user.Login, mod |-> user.IsModerator,
     iat |-> now, exp |-> now + expiresIn, key |-> secret]

GenerateRefreshToken(user, secret, expiresIn) ==
    [uid |-> user.User_ID, login |-> user.Login, mod |-> user.IsModerator,
     iat |-> now, exp |-> now + expiresIn, key |-> secret]

\* a faulty variant: ValidateToken that does not look at the expiry
ValidateTokenNoExpiry(tokenString, secret) ==
    /\ tokenString.key = secret
    /\ tokenString.iat <= now

\* jwt.ParseWithClaims: signature must match; StandardClaims.Valid accepts
\* now <= exp and now >= iat.
ValidateToken(tokenString, secret) ==
    /\ tokenString.key = secret
    /\ now <= tokenString.exp
    /\ tokenString.iat <= now

\* the claims ValidateToken returns for a token it accepts
TokenClaims(tokenString) ==
    [UserID |-> tokenString.uid, Login |-> tokenString.login,
     IsModerator |-> tokenString.mod]

\* a token signed with a key the server does not use
ForgedToken == [uid |-> 1, login |-> 1, mod |-> TRUE,
                iat |-> 1, exp |-> MaxTime + 1, key |-> "other-key"]
\* the empty token string
EmptyToken == [uid |-> 0, login |-> 0, mod |-> FALSE,
               iat |-> 0, exp |-> 0, key |-> ""]

NoIdentity == [set |-> FALSE, user_id |-> 0, login |-> 0, is_moderator |-> FALSE]
Identity(claims) ==
    [set |-> TRUE, user_id |-> claims.uid, login |-> claims.login,
     is_moderator |-> claims.mod]

----------------------------------------------------------------------------
(* SessionStore: the Redis helpers of package redis *)

\* Client.Exists on jwt:blacklist:<token>: a key lives until its TTL runs out
IsInBlacklist(token) ==
    /\ token \in DOMAIN blacklist
    /\ now < blacklist[token]

\* a faulty variant: the key is kept for what is left of the token's lifetime,
\* whatever TTL is asked for
AddToBlacklistUntilExpiry(token, expiresIn) ==
    [t \in (DOMAIN blacklist) \cup {token} |->
        IF t = token THEN token.exp ELSE blacklist[t]]

\* Client.Set on jwt:blacklist:<token> with TTL expiresIn
AddToBlacklist(token, expiresIn) ==
    [t \in (DOMAIN blacklist) \cup {token} |->
        IF t = token THEN now + expiresIn ELSE blacklist[t]]

NoRefresh == [present |-> FALSE, tok |-> EmptyToken, exp |-> 0]

SaveRefreshToken(userID, refreshToken, expiresIn) ==
    [refreshStore EXCEPT ![userID] =
        [present |-> TRUE, tok |-> refreshToken, exp |-> now + expiresIn]]

\* Client.Get on refresh:token:<uid>: [found, tok]; redis.Nil once expired
GetRefreshToken(userID) ==
    IF refreshStore[userID].present /\ now < refreshStore[userID].exp
    THEN [found |-> TRUE, tok |-> refreshStore[userID].tok]
    ELSE [found |-> FALSE, tok |-> EmptyToken]

DeleteRefreshToken(userID) == [refreshStore EXCEPT ![userID] = NoRefresh]

\* a key user:session:<uid> that has no TTL
NoTTL == -1

\* the fields of sessionData: user_id, login, is_moderator, login_time,
\* ip_address
SessionFields == 5

\* SaveUserSession, first part: one HSET of a field of the session.  It
\* creates the hash, without a TTL, when the key is absent, and leaves the TTL
\* of a key that exists.  The fields themselves are not kept.
SaveUserSessionHSet(userID) ==
    [sessions EXCEPT ![userID] = IF @ = 0 THEN NoTTL ELSE @]

\* SaveUserSession, second part: EXPIRE, which does nothing (and returns no
\* error) when the key is absent
SaveUserSessionExpire(userID, expiresIn) ==
    [sessions EXCEPT ![userID] = IF @ = 0 THEN 0 ELSE now + expiresIn]

DeleteUserSession(userID) == [sessions EXCEPT ![userID] = 0]

----------------------------------------------------------------------------
(* Responses *)

\* a pointer field the request body leaves out
Nil == "nil"

\* the inputs of a workflow request, as far as the response record keeps them
NoReq == [iid |-> 0, amount |-> 0, result |-> "", apiKey |-> "",
          status |-> "", dateFrom |-> 0, dateTo |-> 0]

\* op: the handler; code: HTTP status; ctx: the gin context left by the
\* middleware; tok: the token the request presented; access/refresh: tokens in
\* the response body; log: the errors the handler logged; uid, cid, req:
\* the requester, the composition and the inputs of a workflow request; list:
\* the ids a listing returns; calc: the calculation requests the handler
\* started; view: the composition a view by id returns (none: the empty set);
\* count: the item count the cart returns
Response(op, code, ctx, tok, access, refresh, log) ==
    [op |-> op, code |-> code, ctx |-> ctx, tok |-> tok,
     access |-> access, refresh |-> refresh, log |-> log,
     cid |-> 0, uid |-> 0, req |-> NoReq, list |-> {}, calc |-> {}, view |-> {},
     count |-> 0]

NoResponse == Response("none", 0, NoIdentity, EmptyToken, EmptyToken, EmptyToken, {})

----------------------------------------------------------------------------
(* AuthGate: middleware.AuthMiddleware *)

\* the Authorization headers a client can send
Headers ==
    {[kind |-> "none", tok |-> EmptyToken],       \* no header
     [kind |-> "basic", tok |-> ForgedToken],     \* not "Bearer <token>"
     [kind |-> "bearer", tok |-> EmptyToken],     \* "Bearer " and nothing else
     [kind |-> "bearer", tok |-> ForgedToken]}
    \cup {[kind |-> "bearer", tok |-> i.tok] : i \in issued}

\* the headers that carry a token the server has handed out
IssuedHeaders == {h \in Headers : h.kind = "bearer" /\ h.tok \in {i.tok : i \in issued}}

\* a faulty variant: AuthMiddleware that validates the token before it asks
\* the blacklist
AuthMiddlewareValidateFirst(header, cfgErr, lookupErr) ==
    IF header.kind # "bearer" \/ header.tok = EmptyToken
    THEN [code |-> 401, ctx |-> NoIdentity, log |-> {}]
    ELSE IF cfgErr
    THEN [code |-> 500, ctx |-> NoIdentity, log |-> {"config failed"}]
    ELSE IF ~ValidateToken(header.tok, JWTSecret)
    THEN [code |-> 401, ctx |-> NoIdentity, log |-> {}]
    ELSE IF redisClient /\ ~lookupErr /\ IsInBlacklist(header.tok)
    THEN [code |-> 401, ctx |-> NoIdentity, log |-> {}]
    ELSE [code |-> 200, ctx |-> Identity(header.tok),
          log |-> IF redisClient /\ lookupErr THEN {"blacklist check failed"} ELSE {}]

\* a faulty variant: AuthMiddleware that refuses the request when the store
\* is absent or its lookup fails
AuthMiddlewareFailClosed(header, cfgErr, lookupErr) ==
    IF header.kind # "bearer" \/ header.tok = EmptyToken
    THEN [code |-> 401, ctx |-> NoIdentity, log |-> {}]
    ELSE IF cfgErr
    THEN [code |-> 500, ctx |-> NoIdentity, log |-> {"config failed"}]
    ELSE IF ~redisClient \/ lookupErr
    THEN [code |-> 401, ctx |-> NoIdentity,
          log |-> IF redisClient THEN {"blacklist check failed"} ELSE {}]
    ELSE IF IsInBlacklist(header.tok) \/ ~ValidateToken(header.tok, JWTSecret)
    THEN [code |-> 401, ctx |-> NoIdentity, log |-> {}]
    ELSE [code |-> 200, ctx |-> Identity(header.tok), log |-> {}]

\* a faulty variant: AuthMiddleware without its blacklist lookup
AuthMiddlewareNoBlacklist(header, cfgErr, lookupErr) ==
    IF header.kind # "bearer" \/ header.tok = EmptyToken
    THEN [code |-> 401, ctx |-> NoIdentity, log |-> {}]
    ELSE IF cfgErr
    THEN [code |-> 500, ctx |-> NoIdentity, log |-> {"config failed"}]
    ELSE IF ~ValidateToken(header.tok, JWTSecret)
    THEN [code |-> 401, ctx |-> NoIdentity, log |-> {}]
    ELSE [code |-> 200, ctx |-> Identity(header.tok), log |-> {}]

\* the outcome of the middleware: [code, ctx, log]; code 200 stands for
\* c.Next().  cfgErr: getConfig() (which reads the configuration anew on
\* every request) fails; lookupErr: the blacklist lookup fails.
AuthMiddleware(header, cfgErr, lookupErr) ==
    IF header.kind = "none"
    THEN [code |-> 401, ctx |-> NoIdentity, log |-> {}]
    ELSE IF header.kind # "bearer"
    THEN [code |-> 401, ctx |-> NoIdentity, log |-> {}]
    ELSE IF header.tok = EmptyToken
    THEN [code |-> 401, ctx |-> NoIdentity, log |-> {}]
    ELSE IF cfgErr
    THEN [code |-> 500, ctx |-> NoIdentity, log |-> {"config failed"}]
    ELSE IF redisClient /\ ~lookupErr /\ IsInBlacklist(header.tok)
    THEN [code |-> 401, ctx |-> NoIdentity, log |-> {}]
    ELSE IF ~ValidateToken(header.tok, JWTSecret)
    THEN [code |-> 401, ctx |-> NoIdentity,
          log |-> IF redisClient /\ lookupErr THEN {"blacklist check failed"} ELSE {}]
    ELSE [code |-> 200, ctx |-> Identity(header.tok),
          log |-> IF redisClient /\ lookupErr THEN {"blacklist check failed"} ELSE {}]

\* GET /users/profile: AuthMiddleware, then UserHandler.GetProfile, which only
\* reads the table users (not written by any request of the model).  userErr:
\* GetUserProfile returns an error, which is logged and answered 404; ctx is
\* the context as the middleware left it.
ProtectedRequest(header, cfgErr, lookupErr, userErr) ==
    LET m == AuthMiddleware(header, cfgErr, lookupErr) IN
    /\ last' = IF m.code # 200
               THEN Response("Protected", m.code, m.ctx, header.tok,
                             EmptyToken, EmptyToken, m.log)
               ELSE IF userErr
               THEN Response("Protected", 404, m.ctx, header.tok,
                             EmptyToken, EmptyToken,
                             m.log \cup {"get user profile failed"})
               ELSE Response("Protected", 200, m.ctx, header.tok,
                             EmptyToken, EmptyToken, m.log)
    /\ UNCHANGED <<now, pairKey, authVars, flowVars>>

----------------------------------------------------------------------------
(* middleware.OptionalAuth *)

\* a faulty variant: OptionalAuth without its blacklist lookup
OptionalAuthNoBlacklist(header, cfgErr, lookupErr) ==
    IF header.kind # "bearer" \/ header.tok = EmptyToken
    THEN [code |-> 200, ctx |-> NoIdentity, log |-> {}]
    ELSE IF cfgErr
    THEN [code |-> 200, ctx |-> NoIdentity, log |-> {"config failed"}]
    ELSE IF ~ValidateToken(header.tok, JWTSecret)
    THEN [code |-> 200, ctx |-> NoIdentity, log |-> {}]
    ELSE [code |-> 200, ctx |-> Identity(header.tok), log |-> {}]

\* the outcome of the middleware: [code, ctx, log]; every path ends in
\* c.Next() (code 200), and only a failure of getConfig is logged
OptionalAuth(header, cfgErr, lookupErr) ==
    IF header.kind # "bearer"
    THEN [code |-> 200, ctx |-> NoIdentity, log |-> {}]
    ELSE IF header.tok = EmptyToken
    THEN [code |-> 200, ctx |-> NoIdentity, log |-> {}]
    ELSE IF cfgErr
    THEN [code |-> 200, ctx |-> NoIdentity, log |-> {"config failed"}]
    ELSE IF redisClient /\ ~lookupErr /\ IsInBlacklist(header.tok)
    THEN [code |-> 200, ctx |-> NoIdentity, log |-> {}]
    ELSE IF ~ValidateToken(header.tok, JWTSecret)
    THEN [code |-> 200, ctx |-> NoIdentity, log |-> {}]
    ELSE [code |-> 200, ctx |-> Identity(header.tok), log |-> {}]

\* a request to a route behind OptionalAuth whose handler only reads
OptionalRequest(header, cfgErr, lookupErr) ==
    LET m == OptionalAuth(header, cfgErr, lookupErr) IN
    /\ last' = Response("Optional", m.code, m.ctx, header.tok,
                        EmptyToken, EmptyToken, m.log)
    /\ UNCHANGED <<now, pairKey, authVars, flowVars>>

----------------------------------------------------------------------------
(* The clock *)

\* time passes: Redis drops the keys whose TTL has run out, and a token past
\* its expiry is no longer kept apart from any other string ValidateToken refuses
Tick(bound) ==
    /\ now < bound
    /\ now' = now + 1
    /\ blacklist' = [t \in {x \in DOMAIN blacklist : now + 1 < blacklist[x]} |-> blacklist[t]]
    /\ refreshStore' = [u \in Users |->
            IF refreshStore[u].present /\ now + 1 < refreshStore[u].exp
            THEN refreshStore[u] ELSE NoRefresh]
    /\ sessions' = [u \in Users |->
            IF sessions[u] = NoTTL \/ now + 1 < sessions[u] THEN sessions[u] ELSE 0]
    /\ issued' = {i \in issued : now + 1 <= i.tok.exp}
    /\ last' = NoResponse
    /\ UNCHANGED <<redisClient, pairKey, flowVars>>

----------------------------------------------------------------------------
(* TokenCodec on its own: tokens for any user row, secret and lifetime, and  *)
(* ValidateToken applied to them as time passes                              *)

Secrets == {JWTSecret, "other-key"}
Lifetimes == {1, 2}
UserRows == [User_ID : Users, Login : Users, IsModerator : BOOLEAN]

\* what the run keeps of a call: the token and the arguments that made it
Signed(tok, use, user, secret, expiresIn) ==
    [tok |-> tok, use |-> use, user |-> user, secret |-> secret,
     expiresIn |-> expiresIn, at |-> now]

CodecGenerateAccess(user, secret, expiresIn) ==
    LET tok == GenerateAccessToken(user, secret, expiresIn) IN
    /\ Cardinality(issued) < MaxTokens
    /\ issued' = issued \cup {Signed(tok, "access", user, secret, expiresIn)}
    /\ last' = Response("GenerateAccessToken", 0, NoIdentity, EmptyToken,
                        tok, EmptyToken, {})
    /\ UNCHANGED <<now, pairKey, redisClient, blacklist, refreshStore, sessions, flowVars>>

CodecGenerateRefresh(user, secret, expiresIn) ==
    LET tok == GenerateRefreshToken(user, secret, expiresIn) IN
    /\ Cardinality(issued) < MaxTokens
    /\ issued' = issued \cup {Signed(tok, "refresh", user, secret, expiresIn)}
    /\ last' = Response("GenerateRefreshToken", 0, NoIdentity, EmptyToken,
                        EmptyToken, tok, {})
    /\ UNCHANGED <<now, pairKey, redisClient, blacklist, refreshStore, sessions, flowVars>>

\* ValidateToken(tokenString, secret): ctx holds the claims it returns, log the error
CodecValidate(tokenString, secret) ==
    /\ last' = IF ValidateToken(tokenString, secret)
               THEN Response("ValidateToken", 0, Identity(tokenString), tokenString,
                             EmptyToken, EmptyToken, {})
               ELSE Response("ValidateToken", 0, NoIdentity, tokenString,
                             EmptyToken, EmptyToken, {"invalid token"})
    /\ UNCHANGED <<now, pairKey, authVars, flowVars>>

\* time passes and nothing else happens
ClockTick(bound) ==
    /\ now < bound
    /\ now' = now + 1
    /\ last' = NoResponse
    /\ UNCHANGED <<authVars, pairKey, flowVars>>

----------------------------------------------------------------------------
(* CompositionWorkflow: the tables *)

\* the status column (the source stores the Russian words)
Draft == "Draft"           \* "Черновик"
Formed == "Formed"         \* "Сформирована"
Completed == "Completed"   \* "Завершена"
Rejected == "Rejected"     \* "Отклонена"
Deleted == "Deleted"       \* "Удалён"

\* the two classification strings of the calculation service
Belongs == "belongs"            \* "принадлежит"
NotBelongs == "does not belong" \* "не принадлежит"

\* ids a request may name when the table holds at most cap rows: the rows, 0,
\* and one id past them
CompIds(cap) == 0..(cap + 1)

\* the empty update map
NoUpdates == [f \in {} |-> 0]

\* the row AddIntervalToComposition inserts (NULL and zero times are 0)
NewComposition(creatorID) ==
    [creator_id |-> creatorID, moderator_id |-> 0, status |-> Draft,
     belonging |-> "", title |-> "",
     date_create |-> now, date_update |-> 0, date_finish |-> 0]

\* SELECT ... WHERE id = ?
GetComposition(id) ==
    IF id \in DOMAIN comps THEN [found |-> TRUE, row |-> comps[id]]
    ELSE [found |-> FALSE, row |-> NewComposition(0)]

\* the rows of one composition
RowsOf(cid) == {r \in items : r.cid = cid}
ItemRows(cid, iid) == {r \in items : r.cid = cid /\ r.iid = iid}

\* a row of compositor_intervals; row is what tells the rows of one pair
\* apart when the pair is not the key (the value of a surrogate id): a row
\* inserted later bears a higher number, and First reads the lowest
ItemRow(cid, iid, amount, row) == [cid |-> cid, iid |-> iid, amount |-> amount, row |-> row]

\* the numbers of the pair that are taken: by its rows and by the rows that
\* requests on their way to Save have read
RowsTaken(cid, iid) ==
    {r.row : r \in ItemRows(cid, iid)}
      \cup {workers[w].upd.row :
               w \in {v \in Workers : /\ workers[v].op = "AddIntervalToComposition"
                                      /\ workers[v].pc = "save"
                                      /\ workers[v].cid = cid /\ workers[v].iid = iid}}

\* the number an INSERT gives the next row of the pair
NewRow(cid, iid) ==
    IF pairKey \/ RowsTaken(cid, iid) = {} THEN 1
    ELSE 1 + CHOOSE n \in RowsTaken(cid, iid) : \A m \in RowsTaken(cid, iid) : m <= n

\* SELECT ... WHERE creator_id = ? AND status = 'Черновик' ORDER BY id LIMIT 1
DraftsOf(creatorID) ==
    {i \in DOMAIN comps : comps[i].creator_id = creatorID /\ comps[i].status = Draft}
FirstDraft(creatorID) ==
    IF DraftsOf(creatorID) = {} THEN 0
    ELSE CHOOSE i \in DraftsOf(creatorID) : \A j \in DraftsOf(creatorID) : i <= j

\* UPDATE compositions SET <fields> WHERE id = ?  (gorm Updates with a map)
SetFields(id, fields) ==
    [i \in DOMAIN comps |->
        IF i = id
        THEN [f \in DOMAIN comps[i] |->
                IF f \in DOMAIN fields THEN fields[f] ELSE comps[i][f]]
        ELSE comps[i]]

\* a faulty variant: UpdateCompositionFields that sends the map as it got it
UpdateCompositionFieldsMapKeepAll(updates) ==
    [f \in (DOMAIN updates) \cup {"date_update"} |->
        IF f = "date_update" THEN now ELSE updates[f]]

\* CompositionIntervalRepository.UpdateCompositionFields: the map it sends
\* (id, creator_id, date_create dropped, date_update stamped) ...
UpdateCompositionFieldsMap(updates) ==
    [f \in ((DOMAIN updates) \ {"id", "creator_id", "date_create"}) \cup {"date_update"} |->
        IF f = "date_update" THEN now ELSE updates[f]]

\* a faulty variant: UpdateCompositionFields that does not look at RowsAffected
UpdateCompositionFieldsErrIgnored(id) == FALSE

\* ... the error it returns (RowsAffected = 0) ...
UpdateCompositionFieldsErr(id) == id \notin DOMAIN comps

\* ... and the table it leaves
UpdateCompositionFields(id, updates) ==
    SetFields(id, UpdateCompositionFieldsMap(updates))

\* CompositionIntervalRepository.CompleteComposition: the error it returns.
\* Line 181 keeps the *gorm.DB that First returns (no .Error), which is never
\* nil, so every call with an allowed status ends at line 183.
CompleteCompositionErr(id, moderatorID, status) ==
    IF status # Completed /\ status # Rejected THEN "invalid status transition"
    ELSE "composition not found or not in formed status"

----------------------------------------------------------------------------
(* Workers: one per in-flight request *)

Idle == [op |-> "none", pc |-> "idle", uid |-> 0, cid |-> 0, iid |-> 0,
         amount |-> 0, upd |-> NoUpdates]

Job(op, pc, uid, cid, iid, amount, upd) ==
    [op |-> op, pc |-> pc, uid |-> uid, cid |-> cid, iid |-> iid,
     amount |-> amount, upd |-> upd]

\* the identities AuthMiddleware can leave in the context
Identities == {Identity(GenerateAccessToken(UserRow(u), JWTSecret, JWTAccessExpire)) : u \in Users}

FlowResponse(op, code, uid, cid) ==
    [NoResponse EXCEPT !.op = op, !.code = code, !.uid = uid, !.cid = cid]

\* the worker answers and becomes idle
Finish(w, op, code) ==
    /\ last' = [FlowResponse(op, code, workers[w].uid, workers[w].cid) EXCEPT
                  !.req = [NoReq EXCEPT !.iid = workers[w].iid,
                                        !.amount = workers[w].amount]]
    /\ workers' = [workers EXCEPT ![w] = Idle]

\* the worker goes on to its next statement
Goto(w, job) ==
    /\ workers' = [workers EXCEPT ![w] = job]
    /\ last' = NoResponse

\* the request of the worker w is answered and the worker becomes idle
Answer(w, response) ==
    /\ last' = response
    /\ workers' = [workers EXCEPT ![w] = Idle]

\* the two tokens of a response are handed to the client
Hand(accessToken, refreshToken) ==
    issued \cup {[tok |-> accessToken, use |-> "access"],
                 [tok |-> refreshToken, use |-> "refresh"]}

----------------------------------------------------------------------------
(* UserHandler.Login (POST /users/login, a public route), one step per     *)
(* wait on the database or on Redis                                        *)

\* binding, AuthenticateUser, the configuration and the two tokens; with no
\* Redis client the answer follows at once
LoginStart(w, u, bindOk, credOk, cfgErr, genErr) ==
    LET user == UserRow(u)
        accessToken == GenerateAccessToken(user, JWTSecret, JWTAccessExpire)
        refreshToken == GenerateRefreshToken(user, JWTSecret, JWTRefreshExpire)
        code == IF ~bindOk THEN 400 ELSE IF ~credOk THEN 401
                ELSE IF cfgErr \/ genErr THEN 500 ELSE 200
    IN
    /\ workers[w].pc = "idle"
    /\ IF code # 200
       THEN /\ last' = Response("Login", code, NoIdentity, EmptyToken,
                                EmptyToken, EmptyToken,
                                IF code = 400 THEN {}
                                ELSE IF code = 401 THEN {"authenticate failed"}
                                ELSE IF cfgErr THEN {"config failed"}
                                ELSE {"generate token failed"})
            /\ UNCHANGED <<workers, issued>>
       ELSE IF ~redisClient
       THEN /\ issued' = Hand(accessToken, refreshToken)
            /\ last' = Response("Login", 200, NoIdentity, EmptyToken,
                                accessToken, refreshToken, {})
            /\ UNCHANGED workers
       ELSE /\ Goto(w, Job("Login", "loginSaveRefresh", u, 0, 0, 0,
                           [access |-> accessToken, refresh |-> refreshToken,
                            log |-> {}, fields |-> 0]))
            /\ UNCHANGED issued
    /\ UNCHANGED <<now, pairKey, redisClient, blacklist, refreshStore, sessions,
                   comps, items, calculations>>

\* SaveRefreshToken: SET refresh:token:<uid>; an error is only logged
LoginSaveRefreshToken(w, saveErr) ==
    /\ workers[w].pc = "loginSaveRefresh"
    /\ refreshStore' = IF saveErr THEN refreshStore
                       ELSE SaveRefreshToken(workers[w].uid, workers[w].upd.refresh,
                                             JWTRefreshExpire)
    /\ Goto(w, [workers[w] EXCEPT
                  !.pc = "loginHSet",
                  !.upd = [@ EXCEPT !.log =
                     @ \cup {e \in {"save refresh token failed"} : saveErr}]])
    /\ UNCHANGED <<now, pairKey, redisClient, issued, blacklist, sessions,
                   comps, items, calculations>>

\* SaveUserSession, one HSET of its loop over the fields of sessionData (the
\* worker counts those it has sent).  hsetErr: the command fails, the loop
\* ends, the error is logged and the answer is 200 with no EXPIRE sent.
LoginSaveSessionHSet(w, hsetErr) ==
    /\ workers[w].pc = "loginHSet"
    /\ IF hsetErr
       THEN /\ issued' = Hand(workers[w].upd.access, workers[w].upd.refresh)
            /\ Answer(w, Response("Login", 200, NoIdentity, EmptyToken,
                                  workers[w].upd.access, workers[w].upd.refresh,
                                  workers[w].upd.log \cup {"save session failed"}))
            /\ UNCHANGED sessions
       ELSE /\ sessions' = SaveUserSessionHSet(workers[w].uid)
            /\ Goto(w, [workers[w] EXCEPT
                          !.pc = IF workers[w].upd.fields + 1 = SessionFields
                                 THEN "loginExpire" ELSE "loginHSet",
                          !.upd = [@ EXCEPT !.fields = @ + 1]])
            /\ UNCHANGED issued
    /\ UNCHANGED <<now, pairKey, redisClient, blacklist, refreshStore,
                   comps, items, calculations>>

\* SaveUserSession, the EXPIRE (an error is only logged), and the answer
LoginSaveSessionExpire(w, expireErr) ==
    /\ workers[w].pc = "loginExpire"
    /\ sessions' = IF expireErr THEN sessions
                   ELSE SaveUserSessionExpire(workers[w].uid, JWTAccessExpire)
    /\ issued' = Hand(workers[w].upd.access, workers[w].upd.refresh)
    /\ Answer(w, Response("Login", 200, NoIdentity, EmptyToken,
                          workers[w].upd.access, workers[w].upd.refresh,
                          workers[w].upd.log
                          \cup {e \in {"save session failed"} : expireErr}))
    /\ UNCHANGED <<now, pairKey, redisClient, blacklist, refreshStore,
                   comps, items, calculations>>

----------------------------------------------------------------------------
(* POST /users/logout: AuthMiddleware, then UserHandler.Logout             *)

\* the middleware (with its lookup of the blacklist) and the handler's own
\* reading of the configuration (handlerCfgErr: it fails); with no Redis
\* client the answer follows at once
LogoutStart(w, header, cfgErr, lookupErr, handlerCfgErr) ==
    LET m == AuthMiddleware(header, cfgErr, lookupErr) IN
    /\ workers[w].pc = "idle"
    /\ IF m.code # 200
       THEN /\ last' = Response("Logout", m.code, m.ctx, header.tok,
                                EmptyToken, EmptyToken, m.log)
            /\ UNCHANGED workers
       ELSE IF handlerCfgErr
       THEN /\ last' = Response("Logout", 500, m.ctx, header.tok,
                                EmptyToken, EmptyToken,
                                m.log \cup {"config failed"})
            /\ UNCHANGED workers
       ELSE IF ~redisClient
       THEN /\ last' = Response("Logout", 200, m.ctx, header.tok,
                                EmptyToken, EmptyToken, m.log)
            /\ UNCHANGED workers
       ELSE Goto(w, Job("Logout", "logoutBlacklist", m.ctx.user_id, 0, 0, 0,
                        [tok |-> header.tok, ctx |-> m.ctx, log |-> m.log]))
    /\ UNCHANGED <<now, pairKey, authVars, comps, items, calculations>>

\* AddToBlacklist: SET jwt:blacklist:<token>; an error ends the request
LogoutAddToBlacklist(w, addErr) ==
    /\ workers[w].pc = "logoutBlacklist"
    /\ IF addErr
       THEN /\ Answer(w, Response("Logout", 500, workers[w].upd.ctx,
                                  workers[w].upd.tok, EmptyToken, EmptyToken,
                                  workers[w].upd.log \cup {"add to blacklist failed"}))
            /\ UNCHANGED blacklist
       ELSE /\ blacklist' = AddToBlacklist(workers[w].upd.tok, JWTAccessExpire)
            /\ Goto(w, [workers[w] EXCEPT !.pc = "logoutSession"])
    /\ UNCHANGED <<now, pairKey, redisClient, issued, refreshStore, sessions,
                   comps, items, calculations>>

\* DeleteUserSession: DEL user:session:<uid>; an error is only logged
LogoutDeleteSession(w, sessErr) ==
    /\ workers[w].pc = "logoutSession"
    /\ sessions' = IF sessErr THEN sessions ELSE DeleteUserSession(workers[w].uid)
    /\ Goto(w, [workers[w] EXCEPT
                  !.pc = "logoutRefresh",
                  !.upd = [@ EXCEPT !.log =
                     @ \cup {e \in {"delete session failed"} : sessErr}]])
    /\ UNCHANGED <<now, pairKey, redisClient, issued, blacklist, refreshStore,
                   comps, items, calculations>>

\* a faulty variant: the last step of Logout that leaves the stored refresh
\* token
LogoutDeleteRefreshTokenKept(w, delErr) ==
    /\ workers[w].pc = "logoutRefresh"
    /\ refreshStore' = refreshStore
    /\ Answer(w, Response("Logout", 200, workers[w].upd.ctx, workers[w].upd.tok,
                          EmptyToken, EmptyToken, workers[w].upd.log))
    /\ UNCHANGED <<now, pairKey, redisClient, issued, blacklist, sessions,
                   comps, items, calculations>>

\* DeleteRefreshToken: DEL refresh:token:<uid>, its error ignored, and the
\* answer
LogoutDeleteRefreshToken(w, delErr) ==
    /\ workers[w].pc = "logoutRefresh"
    /\ refreshStore' = IF delErr THEN refreshStore
                       ELSE DeleteRefreshToken(workers[w].uid)
    /\ Answer(w, Response("Logout", 200, workers[w].upd.ctx, workers[w].upd.tok,
                          EmptyToken, EmptyToken, workers[w].upd.log))
    /\ UNCHANGED <<now, pairKey, redisClient, issued, blacklist, sessions,
                   comps, items, calculations>>

----------------------------------------------------------------------------
(* UserHandler.RefreshToken (POST /users/refresh, a public route)          *)

\* a faulty variant: RefreshToken without the lookup of the stored token
RefreshTokenCheckNoStore(tok, cfgErr, getErr) ==
    IF tok = EmptyToken THEN 400
    ELSE IF cfgErr THEN 500
    ELSE IF ~ValidateToken(tok, JWTSecret) THEN 401 ELSE 0

\* the checks RefreshToken makes on the presented token before it reads the
\* user: 0 when they pass, else the status code it answers.  The binding
\* refuses an empty refresh_token; cfgErr: config.NewConfig fails; getErr:
\* the GET of the stored token fails.
RefreshTokenCheck(tok, cfgErr, getErr) ==
    IF tok = EmptyToken THEN 400
    ELSE IF cfgErr THEN 500
    ELSE IF ~ValidateToken(tok, JWTSecret) THEN 401
    ELSE IF redisClient /\ (getErr \/ ~GetRefreshToken(tok.uid).found
                                   \/ GetRefreshToken(tok.uid).tok # tok)
    THEN 401
    ELSE 0

\* binding, configuration, ValidateToken and the GET of the stored token
RefreshTokenStart(w, tok, cfgErr, getErr) ==
    /\ workers[w].pc = "idle"
    /\ IF RefreshTokenCheck(tok, cfgErr, getErr) # 0
       THEN /\ last' = Response("RefreshToken", RefreshTokenCheck(tok, cfgErr, getErr),
                                NoIdentity, tok, EmptyToken, EmptyToken,
                                {e \in {"config failed"} : tok # EmptyToken /\ cfgErr})
            /\ UNCHANGED workers
       ELSE Goto(w, Job("RefreshToken", "refreshUser", tok.uid, 0, 0, 0,
                        [refresh_token |-> tok]))
    /\ UNCHANGED <<now, pairKey, authVars, comps, items, calculations>>

\* GetUserByID: the SELECT of the user (userErr: it fails)
RefreshTokenGetUser(w, userErr) ==
    /\ workers[w].pc = "refreshUser"
    /\ IF userErr
       THEN Answer(w, Response("RefreshToken", 401, NoIdentity,
                               workers[w].upd.refresh_token,
                               EmptyToken, EmptyToken, {}))
       ELSE Goto(w, [workers[w] EXCEPT !.pc = "refreshSave"])
    /\ UNCHANGED <<now, pairKey, authVars, comps, items, calculations>>

\* the new tokens (genErr: signing fails), the SET of the new refresh token
\* when there is a client (an error is only logged) and the answer
RefreshTokenSave(w, genErr, saveErr) ==
    LET tok == workers[w].upd.refresh_token
        user == UserRow(workers[w].uid)
        accessToken == GenerateAccessToken(user, JWTSecret, JWTAccessExpire)
        refreshToken == GenerateRefreshToken(user, JWTSecret, JWTRefreshExpire)
    IN
    /\ workers[w].pc = "refreshSave"
    /\ IF genErr
       THEN /\ Answer(w, Response("RefreshToken", 500, NoIdentity, tok,
                                  EmptyToken, EmptyToken, {"generate token failed"}))
            /\ UNCHANGED <<issued, refreshStore>>
       ELSE /\ issued' = Hand(accessToken, refreshToken)
            /\ refreshStore' = IF redisClient /\ ~saveErr
                               THEN SaveRefreshToken(workers[w].uid, refreshToken,
                                                     JWTRefreshExpire)
                               ELSE refreshStore
            /\ Answer(w, Response("RefreshToken", 200, NoIdentity, tok,
                                  accessToken, refreshToken,
                                  {e \in {"save refresh token failed"} :
                                      redisClient /\ saveErr}))
    /\ UNCHANGED <<now, pairKey, redisClient, blacklist, sessions, comps, items, calculations>>

\* inserts that are decided but not yet made
PendingCreates == Cardinality({w \in Workers : workers[w].pc = "create"})

----------------------------------------------------------------------------
(* CompositionIntervalRepository.UpdateCompositionFields called directly *)

\* the columns UpdateCompositionFields refuses to write
ProtectedKeys == {"id", "creator_id", "date_create"}

\* an update map a caller of the repository can pass: the protected keys K
\* (with values no row has) and, when asked, a title
RepositoryUpdates(K, withTitle) ==
    [f \in K \cup (IF withTitle THEN {"title"} ELSE {}) |->
        IF f = "title" THEN "r" ELSE 0]

\* UpdateCompositionFields called with such a map (code 0: it returned nil)
RepositoryUpdate(id, K, withTitle) ==
    /\ IF UpdateCompositionFieldsErr(id)
       THEN /\ last' = FlowResponse("Repository.UpdateCompositionFields", 500, 0, id)
            /\ UNCHANGED comps
       ELSE /\ comps' = UpdateCompositionFields(id, RepositoryUpdates(K, withTitle))
            /\ last' = FlowResponse("Repository.UpdateCompositionFields", 0, 0, id)
    /\ UNCHANGED <<now, pairKey, authVars, calculations, items, workers>>

----------------------------------------------------------------------------
(* POST /intervals/add-to-composition:                                     *)
(* IntervalHandler.AddIntervalToComposition and the repository method      *)

\* binding (interval_id required: not 0; amount required, min=1), then the
\* SELECT of the creator's draft
AddIntervalStart(w, ident, iid, amount) ==
    /\ workers[w].pc = "idle"
    /\ IF iid = 0 \/ amount < 1
       THEN /\ last' = FlowResponse("AddIntervalToComposition", 400, ident.user_id, 0)
            /\ UNCHANGED <<workers, comps, items>>
       ELSE IF FirstDraft(ident.user_id) # 0
       THEN /\ Goto(w, Job("AddIntervalToComposition", "findItem", ident.user_id,
                           FirstDraft(ident.user_id), iid, amount, NoUpdates))
            /\ UNCHANGED <<comps, items>>
       ELSE /\ Goto(w, Job("AddIntervalToComposition", "create", ident.user_id,
                           0, iid, amount, NoUpdates))
            /\ UNCHANGED <<comps, items>>
    /\ UNCHANGED <<now, pairKey, authVars, calculations>>

\* INSERT INTO compositions
AddIntervalCreate(w) ==
    /\ workers[w].pc = "create"
    /\ comps' = Append(comps, NewComposition(workers[w].uid))
    /\ Goto(w, [workers[w] EXCEPT !.pc = "findItem", !.cid = Len(comps) + 1])
    /\ UNCHANGED <<now, pairKey, authVars, calculations, items>>

\* SELECT of the row (composition_id, interval_id): First reads the first row
\* of the pair into existingItem
AddIntervalFindItem(w) ==
    /\ workers[w].pc = "findItem"
    /\ LET found == ItemRows(workers[w].cid, workers[w].iid)
       IN  IF found = {}
           THEN Goto(w, [workers[w] EXCEPT !.pc = "insert"])
           ELSE Goto(w, [workers[w] EXCEPT
                           !.pc = "save",
                           !.upd = [row |-> (CHOOSE r \in found :
                                               \A q \in found : r.row <= q.row).row]])
    /\ UNCHANGED <<now, pairKey, authVars, calculations, comps, items>>

\* INSERT INTO compositor_intervals: with the pair as the key, Create fails
\* when the pair has a row by now (the handler logs the error and answers
\* 500); without it Create adds a row whatever rows the pair has
AddIntervalInsert(w) ==
    /\ workers[w].pc = "insert"
    /\ IF pairKey /\ ItemRows(workers[w].cid, workers[w].iid) # {}
       THEN /\ Finish(w, "AddIntervalToComposition", 500)
            /\ UNCHANGED items
       ELSE /\ items' = items \cup
                  {ItemRow(workers[w].cid, workers[w].iid, workers[w].amount,
                           NewRow(workers[w].cid, workers[w].iid))}
            /\ Finish(w, "AddIntervalToComposition", 200)
    /\ UNCHANGED <<now, pairKey, authVars, calculations, comps>>

\* the rows Save's UPDATE names: the row of existingItem's primary key
SavedRows(w) ==
    {r \in ItemRows(workers[w].cid, workers[w].iid) :
        pairKey \/ r.row = workers[w].upd.row}

\* a faulty variant: the Save that adds the amount to the one the row has
AddIntervalSaveIncrease(w, upsert) ==
    /\ workers[w].pc = "save"
    /\ items' = {IF r \in SavedRows(w)
                 THEN [r EXCEPT !.amount = r.amount + workers[w].amount] ELSE r : r \in items}
    /\ Finish(w, "AddIntervalToComposition", 200)
    /\ UNCHANGED <<now, pairKey, authVars, calculations, comps>>

\* existingItem.Amount = amount; db.Save(&existingItem): the UPDATE writes
\* the row that was read; when that row is gone by now it changes no row,
\* and Save then inserts existingItem (upsert) or, in a gorm that does not,
\* leaves the table as it is; the answer is 200 in each case
AddIntervalSave(w, upsert) ==
    /\ workers[w].pc = "save"
    /\ items' = IF SavedRows(w) # {}
                THEN {IF r \in SavedRows(w)
                      THEN [r EXCEPT !.amount = workers[w].amount] ELSE r : r \in items}
                ELSE IF upsert
                THEN items \cup {ItemRow(workers[w].cid, workers[w].iid,
                                         workers[w].amount, workers[w].upd.row)}
                ELSE items
    /\ Finish(w, "AddIntervalToComposition", 200)
    /\ UNCHANGED <<now, pairKey, authVars, calculations, comps>>

----------------------------------------------------------------------------
(* PUT /compositions/:id/form *)

\* a faulty variant: FormComposition without the creator in its SELECT
FormCompositionStartAnyUser(w, ident, id) ==
    /\ workers[w].pc = "idle"
    /\ IF GetComposition(id).found /\ comps[id].status = Draft
       THEN Goto(w, Job("FormComposition", "count", ident.user_id, id, 0, 0, NoUpdates))
       ELSE /\ last' = FlowResponse("FormComposition", 400, ident.user_id, id)
            /\ UNCHANGED workers
    /\ UNCHANGED <<now, pairKey, authVars, calculations, comps, items>>

\* SELECT ... WHERE id = ? AND creator_id = ? AND status = 'Черновик'
FormCompositionStart(w, ident, id) ==
    /\ workers[w].pc = "idle"
    /\ IF /\ GetComposition(id).found
          /\ comps[id].creator_id = ident.user_id
          /\ comps[id].status = Draft
       THEN Goto(w, Job("FormComposition", "count", ident.user_id, id, 0, 0, NoUpdates))
       ELSE /\ last' = FlowResponse("FormComposition", 400, ident.user_id, id)
            /\ UNCHANGED workers
    /\ UNCHANGED <<now, pairKey, authVars, calculations, comps, items>>

\* a faulty variant: FormComposition without the count of the item rows
FormCompositionCountNoCheck(w) ==
    /\ workers[w].pc = "count"
    /\ Goto(w, [workers[w] EXCEPT !.pc = "formUpdate"])
    /\ UNCHANGED <<now, pairKey, authVars, calculations, comps, items>>

\* SELECT count(*) FROM compositor_intervals WHERE composition_id = ?
FormCompositionCount(w) ==
    /\ workers[w].pc = "count"
    /\ IF Cardinality(RowsOf(workers[w].cid)) = 0
       THEN Finish(w, "FormComposition", 400)
       ELSE Goto(w, [workers[w] EXCEPT !.pc = "formUpdate"])
    /\ UNCHANGED <<now, pairKey, authVars, calculations, comps, items>>

\* UPDATE compositions SET status, date_update, date_finish = NULL WHERE id = ?
FormCompositionUpdate(w) ==
    /\ workers[w].pc = "formUpdate"
    /\ comps' = SetFields(workers[w].cid,
                  [status |-> Formed, date_update |-> now, date_finish |-> 0])
    /\ Finish(w, "FormComposition", 200)
    /\ UNCHANGED <<now, pairKey, authVars, calculations, items>>

----------------------------------------------------------------------------
(* DELETE /compositions/:id *)

\* SELECT ... WHERE id = ? AND status = 'Черновик'; the requester is not compared
DeleteCompositionStart(w, ident, id) ==
    /\ workers[w].pc = "idle"
    /\ IF GetComposition(id).found /\ comps[id].status = Draft
       THEN Goto(w, Job("DeleteComposition", "deleteUpdate", ident.user_id, id, 0, 0, NoUpdates))
       ELSE /\ last' = FlowResponse("DeleteComposition", 500, ident.user_id, id)
            /\ UNCHANGED workers
    /\ UNCHANGED <<now, pairKey, authVars, calculations, comps, items>>

\* UPDATE compositions SET status = 'Удалён', date_update WHERE id = ?
DeleteCompositionUpdate(w) ==
    /\ workers[w].pc = "deleteUpdate"
    /\ comps' = SetFields(workers[w].cid, [status |-> Deleted, date_update |-> now])
    /\ Finish(w, "DeleteComposition", 200)
    /\ UNCHANGED <<now, pairKey, authVars, calculations, items>>

----------------------------------------------------------------------------
(* middleware.ModeratorOnly: 0 when the request goes on, else the status *)

\* a faulty variant: ModeratorOnly that lets every authenticated user through
ModeratorOnlyAnyUser(ctx) ==
    IF ~ctx.set THEN 401 ELSE 0

ModeratorOnly(ctx) ==
    IF ~ctx.set THEN 401
    ELSE IF ~ctx.is_moderator THEN 403
    ELSE 0

----------------------------------------------------------------------------
(* PUT /compositions/:id/complete and /reject (moderator routes):          *)
(* one UPDATE through UpdateCompositionFields                              *)

\* a faulty variant: CompleteComposition that leaves belonging as it was
CompleteCompositionKeepBelonging(ident, id) ==
    LET updates == [status |-> Completed, moderator_id |-> ident.user_id,
                    date_update |-> now, date_finish |-> now]
    IN
    /\ IF ModeratorOnly(ident) # 0
       THEN /\ last' = FlowResponse("CompleteComposition", ModeratorOnly(ident),
                                    ident.user_id, id)
            /\ UNCHANGED <<comps, calculations>>
       ELSE IF UpdateCompositionFieldsErr(id)
       THEN /\ last' = [FlowResponse("CompleteComposition", 500, ident.user_id, id)
                          EXCEPT !.log = {"update composition failed"}]
            /\ UNCHANGED <<comps, calculations>>
       ELSE /\ comps' = UpdateCompositionFields(id, updates)
            /\ last' = [FlowResponse("CompleteComposition", 200, ident.user_id, id)
                          EXCEPT !.calc = {id}]
            /\ calculations' = calculations (+) SetToBag({id})
    /\ UNCHANGED <<now, pairKey, authVars, items, workers>>

CompleteComposition(ident, id) ==
    LET updates == [status |-> Completed, moderator_id |-> ident.user_id,
                    date_update |-> now, date_finish |-> now, belonging |-> ""]
    IN
    /\ IF ModeratorOnly(ident) # 0
       THEN /\ last' = FlowResponse("CompleteComposition", ModeratorOnly(ident),
                                    ident.user_id, id)
            /\ UNCHANGED <<comps, calculations>>
       ELSE IF UpdateCompositionFieldsErr(id)
       THEN /\ last' = [FlowResponse("CompleteComposition", 500, ident.user_id, id)
                          EXCEPT !.log = {"update composition failed"}]
            /\ UNCHANGED <<comps, calculations>>
       ELSE /\ comps' = UpdateCompositionFields(id, updates)
            \* go func(compositionID): POST to the calculation service
            /\ last' = [FlowResponse("CompleteComposition", 200, ident.user_id, id)
                          EXCEPT !.calc = {id}]
            /\ calculations' = calculations (+) SetToBag({id})
    /\ UNCHANGED <<now, pairKey, authVars, items, workers>>

\* a faulty variant: RejectComposition that clears belonging and the title
RejectCompositionClearing(ident, id) ==
    LET updates == [status |-> Rejected, moderator_id |-> ident.user_id,
                    date_update |-> now, date_finish |-> now,
                    belonging |-> "", title |-> ""]
    IN
    /\ IF ModeratorOnly(ident) # 0
       THEN /\ last' = FlowResponse("RejectComposition", ModeratorOnly(ident),
                                    ident.user_id, id)
            /\ UNCHANGED comps
       ELSE IF UpdateCompositionFieldsErr(id)
       THEN /\ last' = [FlowResponse("RejectComposition", 500, ident.user_id, id)
                          EXCEPT !.log = {"update composition failed"}]
            /\ UNCHANGED comps
       ELSE /\ comps' = UpdateCompositionFields(id, updates)
            /\ last' = FlowResponse("RejectComposition", 200, ident.user_id, id)
    /\ UNCHANGED <<now, pairKey, authVars, calculations, items, workers>>

RejectComposition(ident, id) ==
    LET updates == [status |-> Rejected, moderator_id |-> ident.user_id,
                    date_update |-> now, date_finish |-> now]
    IN
    /\ IF ModeratorOnly(ident) # 0
       THEN /\ last' = FlowResponse("RejectComposition", ModeratorOnly(ident),
                                    ident.user_id, id)
            /\ UNCHANGED comps
       ELSE IF UpdateCompositionFieldsErr(id)
       THEN /\ last' = [FlowResponse("RejectComposition", 500, ident.user_id, id)
                          EXCEPT !.log = {"update composition failed"}]
            /\ UNCHANGED comps
       ELSE /\ comps' = UpdateCompositionFields(id, updates)
            /\ last' = FlowResponse("RejectComposition", 200, ident.user_id, id)
    /\ UNCHANGED <<now, pairKey, authVars, calculations, items, workers>>

----------------------------------------------------------------------------
(* The goroutine CompleteComposition starts on every 200: one POST to the    *)
(* calculation service.  Goroutines for the same composition send the same   *)
(* payload: each is one copy of the id in the bag.                           *)

\* http.Post returned an error; the service answered another status than 200;
\* the service answered 200
CalculationOutcomes == {"call failed", "service error", "accepted"}

\* a faulty variant: a goroutine that takes the completion back when the POST
\* did not succeed
CalculationReturnsRollingBack(id, outcome) ==
    /\ BagIn(id, calculations)
    /\ calculations' = calculations (-) SetToBag({id})
    /\ comps' = IF outcome = "accepted" THEN comps
                ELSE SetFields(id, [status |-> Formed])
    /\ last' = [FlowResponse("calculation", 0, 0, id) EXCEPT
                  !.log = IF outcome = "accepted" THEN {} ELSE {outcome}]
    /\ UNCHANGED <<now, pairKey, authVars, items, workers>>

\* the goroutine returns: whatever came of the POST, it only logs
CalculationReturns(id, outcome) ==
    /\ BagIn(id, calculations)
    /\ calculations' = calculations (-) SetToBag({id})
    /\ last' = [FlowResponse("calculation", 0, 0, id) EXCEPT
                  !.log = IF outcome = "accepted" THEN {} ELSE {outcome}]
    /\ UNCHANGED <<now, pairKey, authVars, comps, items, workers>>

----------------------------------------------------------------------------
(* The moderator group: AuthMiddleware, then ModeratorOnly, then the handler *)

\* the contexts a middleware mounted before ModeratorOnly can leave
GateContexts == {NoIdentity} \cup Identities

\* ModeratorOnly on a context as it finds it
ModeratorGate(ctx) ==
    /\ last' = Response("ModeratorOnly", ModeratorOnly(ctx), ctx, EmptyToken,
                        EmptyToken, EmptyToken, {})
    /\ UNCHANGED <<now, pairKey, authVars, flowVars>>

\* the answer of a routed request: the context the middleware left, the token
\* presented and whatever was logged on the way
RoutedResponse(op, code, ctx, tok, log, id) ==
    [Response(op, code, ctx, tok, EmptyToken, EmptyToken, log)
       EXCEPT !.cid = id, !.uid = ctx.user_id]

\* a routed request up to the handler's statement: AuthMiddleware, with its
\* lookup of the blacklist (c.Abort() stops the chain), then ModeratorOnly on
\* the context it left; past both the handler goes on to its UPDATE
RoutedStart(w, op, pc, header, cfgErr, lookupErr, id) ==
    LET m == AuthMiddleware(header, cfgErr, lookupErr) IN
    /\ workers[w].pc = "idle"
    /\ IF m.code # 200
       THEN /\ last' = RoutedResponse(op, m.code, m.ctx, header.tok, m.log, id)
            /\ UNCHANGED workers
       ELSE IF ModeratorOnly(m.ctx) # 0
       THEN /\ last' = RoutedResponse(op, ModeratorOnly(m.ctx), m.ctx, header.tok,
                                      m.log, id)
            /\ UNCHANGED workers
       ELSE Goto(w, Job(op, pc, m.ctx.user_id, id, 0, 0,
                        [ctx |-> m.ctx, tok |-> header.tok, log |-> m.log]))
    /\ UNCHANGED <<now, pairKey, authVars, comps, items, calculations>>

\* PUT /compositions/:id/complete as routed, up to the handler's UPDATE
ModeratorRequest(w, header, cfgErr, lookupErr, id) ==
    RoutedStart(w, "CompleteComposition", "completeUpdate", header, cfgErr,
                lookupErr, id)

\* the UPDATE of CompleteComposition, the goroutine it starts and the answer
ModeratorRequestUpdate(w) ==
    LET id == workers[w].cid
        updates == [status |-> Completed, moderator_id |-> workers[w].uid,
                    date_update |-> now, date_finish |-> now, belonging |-> ""]
    IN
    /\ workers[w].pc = "completeUpdate"
    /\ IF UpdateCompositionFieldsErr(id)
       THEN /\ Answer(w, RoutedResponse("CompleteComposition", 500,
                                        workers[w].upd.ctx, workers[w].upd.tok,
                                        workers[w].upd.log
                                           \cup {"update composition failed"}, id))
            /\ UNCHANGED <<comps, calculations>>
       ELSE /\ comps' = UpdateCompositionFields(id, updates)
            /\ Answer(w, [RoutedResponse("CompleteComposition", 200,
                                         workers[w].upd.ctx, workers[w].upd.tok,
                                         workers[w].upd.log, id)
                            EXCEPT !.calc = {id}])
            /\ calculations' = calculations (+) SetToBag({id})
    /\ UNCHANGED <<now, pairKey, authVars, items>>

\* PUT /compositions/:id/reject as routed, up to the handler's UPDATE
RejectRequest(w, header, cfgErr, lookupErr, id) ==
    RoutedStart(w, "RejectComposition", "rejectUpdate", header, cfgErr,
                lookupErr, id)

\* the UPDATE of RejectComposition and the answer
RejectRequestUpdate(w) ==
    LET id == workers[w].cid
        updates == [status |-> Rejected, moderator_id |-> workers[w].uid,
                    date_update |-> now, date_finish |-> now]
    IN
    /\ workers[w].pc = "rejectUpdate"
    /\ IF UpdateCompositionFieldsErr(id)
       THEN /\ Answer(w, RoutedResponse("RejectComposition", 500,
                                        workers[w].upd.ctx, workers[w].upd.tok,
                                        workers[w].upd.log
                                           \cup {"update composition failed"}, id))
            /\ UNCHANGED comps
       ELSE /\ comps' = UpdateCompositionFields(id, updates)
            /\ Answer(w, RoutedResponse("RejectComposition", 200,
                                        workers[w].upd.ctx, workers[w].upd.tok,
                                        workers[w].upd.log, id))
    /\ UNCHANGED <<now, pairKey, authVars, items, calculations>>

----------------------------------------------------------------------------
(* POST /compositions/receive-result (public): the calculation callback *)

expectedAPIKey == "SECRET123"

APIKeys == {"", expectedAPIKey, "WRONG"}
Results == {"", Belongs, NotBelongs, "other"}

\* a faulty variant: ReceiveCalculationResult without the existence check
ReceiveCalculationResultCodeNoLookup(id, result, apiKey) ==
    IF id = 0 \/ result = "" \/ apiKey = "" THEN 400
    ELSE IF apiKey # expectedAPIKey THEN 401
    ELSE IF result # Belongs /\ result # NotBelongs THEN 400
    ELSE 0

\* a faulty variant: ReceiveCalculationResult without the api_key comparison
ReceiveCalculationResultCodeNoKey(id, result, apiKey) ==
    IF id = 0 \/ result = "" \/ apiKey = "" THEN 400
    ELSE IF result # Belongs /\ result # NotBelongs THEN 400
    ELSE IF ~GetComposition(id).found THEN 404
    ELSE 0

\* a faulty variant: ReceiveCalculationResult without the validation of result
ReceiveCalculationResultCodeAnyResult(id, result, apiKey) ==
    IF id = 0 \/ result = "" \/ apiKey = "" THEN 400
    ELSE IF apiKey # expectedAPIKey THEN 401
    ELSE IF ~GetComposition(id).found THEN 404
    ELSE 0

\* the status ReceiveCalculationResult answers before its UPDATE (0: it goes
\* on to the UPDATE): binding, the api_key, the result and the SELECT of the
\* composition
ReceiveCalculationResultCode(id, result, apiKey) ==
    IF id = 0 \/ result = "" \/ apiKey = "" THEN 400      \* binding:"required"
    ELSE IF apiKey # expectedAPIKey THEN 401
    ELSE IF result # Belongs /\ result # NotBelongs THEN 400
    ELSE IF ~GetComposition(id).found THEN 404
    ELSE 0

\* the answer of a callback: the request's id, result and api_key with it
CallbackResponse(code, id, result, apiKey) ==
    [FlowResponse("ReceiveCalculationResult", code, 0, id)
       EXCEPT !.req = [NoReq EXCEPT !.result = result, !.apiKey = apiKey]]

\* the checks of the request and the SELECT of the composition
ReceiveCalculationResultStart(w, id, result, apiKey) ==
    /\ workers[w].pc = "idle"
    /\ IF ReceiveCalculationResultCode(id, result, apiKey) # 0
       THEN /\ last' = CallbackResponse(ReceiveCalculationResultCode(id, result, apiKey),
                                        id, result, apiKey)
            /\ UNCHANGED workers
       ELSE Goto(w, Job("ReceiveCalculationResult", "resultUpdate", 0, id, 0, 0,
                        [result |-> result, apiKey |-> apiKey]))
    /\ UNCHANGED <<now, pairKey, authVars, calculations, comps, items>>

\* a faulty variant: ReceiveCalculationResult that stamps date_finish as well
ReceiveCalculationResultUpdateFinishing(w) ==
    LET id == workers[w].cid
        result == workers[w].upd.result
        updates == [belonging |-> result, date_update |-> now, date_finish |-> now]
    IN
    /\ workers[w].pc = "resultUpdate"
    /\ IF UpdateCompositionFieldsErr(id)
       THEN /\ Answer(w, CallbackResponse(500, id, result, workers[w].upd.apiKey))
            /\ UNCHANGED comps
       ELSE /\ comps' = UpdateCompositionFields(id, updates)
            /\ Answer(w, CallbackResponse(200, id, result, workers[w].upd.apiKey))
    /\ UNCHANGED <<now, pairKey, authVars, calculations, items>>

\* the UPDATE of belonging, a statement of its own after the SELECT, and the
\* answer
ReceiveCalculationResultUpdate(w) ==
    LET id == workers[w].cid
        result == workers[w].upd.result
        updates == [belonging |-> result, date_update |-> now]
    IN
    /\ workers[w].pc = "resultUpdate"
    /\ IF UpdateCompositionFieldsErr(id)
       THEN /\ Answer(w, CallbackResponse(500, id, result, workers[w].upd.apiKey))
            /\ UNCHANGED comps
       ELSE /\ comps' = UpdateCompositionFields(id, updates)
            /\ Answer(w, CallbackResponse(200, id, result, workers[w].upd.apiKey))
    /\ UNCHANGED <<now, pairKey, authVars, calculations, items>>

----------------------------------------------------------------------------
(* PUT /compositions/:id: CompositionHandler.UpdateCompositionFields *)

BelongingInputs == {Nil, "", "other"}
TitleInputs == {Nil, "t"}

\* the update map built from the request body
RequestUpdates(belonging, title) ==
    [f \in (IF belonging = Nil THEN {} ELSE {"belonging"})
           \cup (IF title = Nil THEN {} ELSE {"title"}) |->
        IF f = "belonging" THEN belonging ELSE title]

\* GetComposition and the status and creator checks
UpdateFieldsStart(w, ident, id, belonging, title) ==
    /\ workers[w].pc = "idle"
    /\ IF ~GetComposition(id).found
       THEN /\ last' = FlowResponse("UpdateCompositionFields", 404, ident.user_id, id)
            /\ UNCHANGED workers
       ELSE IF comps[id].status # Draft
       THEN /\ last' = FlowResponse("UpdateCompositionFields", 403, ident.user_id, id)
            /\ UNCHANGED workers
       ELSE IF comps[id].creator_id # ident.user_id
       THEN /\ last' = FlowResponse("UpdateCompositionFields", 403, ident.user_id, id)
            /\ UNCHANGED workers
       ELSE Goto(w, Job("UpdateCompositionFields", "fieldsUpdate", ident.user_id, id,
                        0, 0, RequestUpdates(belonging, title)))
    /\ UNCHANGED <<now, pairKey, authVars, calculations, comps, items>>

\* the UPDATE
UpdateFieldsWrite(w) ==
    /\ workers[w].pc = "fieldsUpdate"
    /\ comps' = UpdateCompositionFields(workers[w].cid, workers[w].upd)
    /\ Finish(w, "UpdateCompositionFields", 200)
    /\ UNCHANGED <<now, pairKey, authVars, calculations, items>>

----------------------------------------------------------------------------
(* DELETE and PUT /composition-intervals: CompositionIntervalHandler *)

\* GetComposition, then the creator and status checks (shared by both handlers)
ItemRequestCheck(ident, id) ==
    IF ~GetComposition(id).found THEN 404
    ELSE IF comps[id].creator_id # ident.user_id THEN 403
    ELSE IF comps[id].status # Draft THEN 403
    ELSE 0

\* the answer of an item request that is refused before its statement
ItemRefusal(op, code, ident, id, iid, amount) ==
    [FlowResponse(op, code, ident.user_id, id) EXCEPT
        !.req = [NoReq EXCEPT !.iid = iid, !.amount = amount]]

\* binding (composition_id and interval_id required: zero is refused), then
\* the checks
RemoveFromCompositionStart(w, ident, id, iid) ==
    /\ workers[w].pc = "idle"
    /\ IF id = 0 \/ iid = 0
       THEN /\ last' = ItemRefusal("RemoveFromComposition", 400, ident, id, iid, 0)
            /\ UNCHANGED workers
       ELSE IF ItemRequestCheck(ident, id) # 0
       THEN /\ last' = ItemRefusal("RemoveFromComposition", ItemRequestCheck(ident, id),
                                   ident, id, iid, 0)
            /\ UNCHANGED workers
       ELSE Goto(w, Job("RemoveFromComposition", "itemDelete", ident.user_id, id,
                        iid, 0, NoUpdates))
    /\ UNCHANGED <<now, pairKey, authVars, calculations, comps, items>>

\* a faulty variant: the DELETE without the interval in its WHERE
RemoveFromCompositionWriteAll(w) ==
    /\ workers[w].pc = "itemDelete"
    /\ items' = items \ RowsOf(workers[w].cid)
    /\ Finish(w, "RemoveFromComposition",
              IF RowsOf(workers[w].cid) = {} THEN 500 ELSE 200)
    /\ UNCHANGED <<now, pairKey, authVars, calculations, comps>>

\* DeleteCompositionInterval: DELETE ... WHERE composition_id = ? AND interval_id = ?
RemoveFromCompositionWrite(w) ==
    /\ workers[w].pc = "itemDelete"
    /\ items' = items \ ItemRows(workers[w].cid, workers[w].iid)
    /\ Finish(w, "RemoveFromComposition",
              IF ItemRows(workers[w].cid, workers[w].iid) = {} THEN 500 ELSE 200)
    /\ UNCHANGED <<now, pairKey, authVars, calculations, comps>>

\* binding (composition_id and interval_id required, amount required and
\* min=1: zero is refused), then the checks
UpdateCompositionIntervalStart(w, ident, id, iid, amount) ==
    /\ workers[w].pc = "idle"
    /\ IF id = 0 \/ iid = 0 \/ amount < 1
       THEN /\ last' = ItemRefusal("UpdateCompositionInterval", 400, ident, id, iid, amount)
            /\ UNCHANGED workers
       ELSE IF ItemRequestCheck(ident, id) # 0
       THEN /\ last' = ItemRefusal("UpdateCompositionInterval",
                                   ItemRequestCheck(ident, id), ident, id, iid, amount)
            /\ UNCHANGED workers
       ELSE Goto(w, Job("UpdateCompositionInterval", "itemUpdate", ident.user_id, id,
                        iid, amount, NoUpdates))
    /\ UNCHANGED <<now, pairKey, authVars, calculations, comps, items>>

\* UpdateCompositionInterval: UPDATE ... SET amount WHERE composition_id, interval_id
UpdateCompositionIntervalWrite(w) ==
    /\ workers[w].pc = "itemUpdate"
    /\ items' = {IF r \in ItemRows(workers[w].cid, workers[w].iid)
                 THEN [r EXCEPT !.amount = workers[w].amount] ELSE r : r \in items}
    /\ Finish(w, "UpdateCompositionInterval",
              IF ItemRows(workers[w].cid, workers[w].iid) = {} THEN 500 ELSE 200)
    /\ UNCHANGED <<now, pairKey, authVars, calculations, comps>>

----------------------------------------------------------------------------
(* GET /compositions: the listing *)

StatusFilters == {"", Draft, Formed, Completed, Rejected, Deleted}

\* a faulty variant: GetCompositions without the creator filter
GetCompositionsRowsAnyCreator(status, dateFrom, dateTo, userID, isModerator) ==
    {i \in DOMAIN comps :
        /\ comps[i].status # Deleted /\ comps[i].status # Draft
        /\ (status # "" => comps[i].status = status)
        /\ (dateFrom # 0 => comps[i].date_create >= dateFrom)
        /\ (dateTo # 0 => comps[i].date_create <= dateTo)}

\* CompositionIntervalRepository.GetCompositions: the ids of the rows it returns
\* (a zero time means no date filter)
GetCompositionsRows(status, dateFrom, dateTo, userID, isModerator) ==
    {i \in DOMAIN comps :
        /\ comps[i].status # Deleted /\ comps[i].status # Draft
        /\ (~isModerator => comps[i].creator_id = userID)
        /\ (status # "" => comps[i].status = status)
        /\ (dateFrom # 0 => comps[i].date_create >= dateFrom)
        /\ (dateTo # 0 => comps[i].date_create <= dateTo)}

GetCompositions(ident, status, dateFrom, dateTo) ==
    /\ last' = [FlowResponse("GetCompositions", 200, ident.user_id, 0) EXCEPT
                  !.ctx = ident,
                  !.list = GetCompositionsRows(status, dateFrom, dateTo,
                                               ident.user_id, ident.is_moderator),
                  !.req = [NoReq EXCEPT !.status = status, !.dateFrom = dateFrom,
                                        !.dateTo = dateTo]]
    /\ UNCHANGED <<now, pairKey, authVars, flowVars>>

----------------------------------------------------------------------------
(* GET /compositions/comp-cart: CompositionHandler.GetCompositionCart and *)
(* the repository method, which reads the Draft and then counts its rows   *)

\* a faulty variant: the cart that takes the creator's first composition in
\* whatever status
GetCompositionCartDraftAnyStatus(creatorID) ==
    LET own == {i \in DOMAIN comps : comps[i].creator_id = creatorID} IN
    IF own = {} THEN 0
    ELSE CHOOSE i \in own : \A j \in own : i <= j

\* SELECT ... WHERE creator_id = ? AND status = 'Черновик' ... LIMIT 1: the id
\* of the creator's first Draft, or 0 (ErrRecordNotFound)
GetCompositionCartDraft(creatorID) == FirstDraft(creatorID)

\* the identity in the context, then the SELECT of the Draft; with no Draft
\* the answer is 0 and 0
GetCompositionCartStart(w, ident) ==
    /\ workers[w].pc = "idle"
    /\ IF ~ident.set
       THEN /\ last' = [FlowResponse("GetCompositionCart", 401, ident.user_id, 0)
                          EXCEPT !.ctx = ident]
            /\ UNCHANGED workers
       ELSE IF GetCompositionCartDraft(ident.user_id) = 0
       THEN /\ last' = [FlowResponse("GetCompositionCart", 200, ident.user_id, 0)
                          EXCEPT !.ctx = ident]
            /\ UNCHANGED workers
       ELSE Goto(w, Job("GetCompositionCart", "cartCount", ident.user_id,
                        GetCompositionCartDraft(ident.user_id), 0, 0,
                        [ident |-> ident]))
    /\ UNCHANGED <<now, pairKey, authVars, calculations, comps, items>>

\* SELECT count(*) FROM compositor_intervals WHERE composition_id = ?, and the
\* answer
GetCompositionCartCount(w) ==
    /\ workers[w].pc = "cartCount"
    /\ Answer(w, [FlowResponse("GetCompositionCart", 200, workers[w].uid, workers[w].cid)
                    EXCEPT !.ctx = workers[w].upd.ident,
                           !.count = Cardinality(RowsOf(workers[w].cid))])
    /\ UNCHANGED <<now, pairKey, authVars, calculations, comps, items>>

----------------------------------------------------------------------------
(* GET /compositions/:id: CompositionHandler.GetComposition.  The          *)
(* repository reads the row, and then, in statements of their own, the rows *)
(* it preloads; the handler compares the creator once they are read.        *)

\* a faulty variant: the view without the comparison of the creator
GetCompositionAccessAnyUser(ident, row) == 200

\* the comparison of the requester with the row that was read
GetCompositionAccess(ident, row) ==
    IF ~ident.is_moderator /\ row.creator_id # ident.user_id THEN 403
    ELSE 200

\* the body of the 200 answer: the row as it was read and the intervals
CompositionView(id, row) ==
    [id |-> id, row |-> row, intervals |-> RowsOf(id)]

\* the identity in the context, then SELECT ... FROM compositions WHERE id = ?
ViewCompositionStart(w, ident, id) ==
    /\ workers[w].pc = "idle"
    /\ IF ~ident.set
       THEN /\ last' = [FlowResponse("GetComposition", 401, ident.user_id, id)
                          EXCEPT !.ctx = ident]
            /\ UNCHANGED workers
       ELSE IF ~GetComposition(id).found
       THEN /\ last' = [FlowResponse("GetComposition", 404, ident.user_id, id)
                          EXCEPT !.ctx = ident]
            /\ UNCHANGED workers
       ELSE Goto(w, Job("GetComposition", "viewItems", ident.user_id, id, 0, 0,
                        [ident |-> ident, row |-> comps[id]]))
    /\ UNCHANGED <<now, pairKey, authVars, calculations, comps, items>>

\* SELECT ... FROM compositor_intervals WHERE composition_id IN (?), then the
\* handler's comparison and its answer
ViewCompositionItems(w) ==
    LET ident == workers[w].upd.ident
        row == workers[w].upd.row
        code == GetCompositionAccess(ident, row)
    IN
    /\ workers[w].pc = "viewItems"
    /\ Answer(w, [FlowResponse("GetComposition", code, workers[w].uid, workers[w].cid)
                    EXCEPT !.ctx = ident,
                           !.view = IF code = 200
                                    THEN {CompositionView(workers[w].cid, row)}
                                    ELSE {}])
    /\ UNCHANGED <<now, pairKey, authVars, calculations, comps, items>>

----------------------------------------------------------------------------
(* The system *)

\* what the definition of table compositor_intervals may say of pairKey: the
\* pair is the key (one row per pair), or it is not
TableKeys == BOOLEAN

\* K: the values of pairKey the run may start with
InitKeyed(K) ==
    /\ now = 1
    /\ redisClient \in BOOLEAN
    /\ pairKey \in K
    /\ issued = {}
    /\ blacklist = [t \in {} |-> 0]
    /\ refreshStore = [u \in Users |-> NoRefresh]
    /\ sessions = [u \in Users |-> 0]
    /\ comps = <<>>
    /\ items = {}
    /\ workers = [w \in Workers |-> Idle]
    /\ calculations = EmptyBag
    /\ last = NoResponse

\* with one add-item request at a time no INSERT meets a row of its pair and
\* no Save meets a row another request inserted, so the key decides nothing:
\* these runs start without it
Init == InitKeyed({FALSE})

\* POST /users/login, served by the workers W for the accounts U; B: the
\* outcomes of binding and AuthenticateUser, G: the failures of the
\* configuration and of signing, E: the failures of the Redis commands that
\* are let happen
LoginSteps(W, U, B, G, E) ==
    \/ \E w \in W, u \in U, bindOk, credOk \in B, cfgErr, genErr \in G :
          LoginStart(w, u, bindOk, credOk, cfgErr, genErr)
    \/ \E w \in W, saveErr \in E : LoginSaveRefreshToken(w, saveErr)
    \/ \E w \in W, hsetErr \in E : LoginSaveSessionHSet(w, hsetErr)
    \/ \E w \in W, expireErr \in E : LoginSaveSessionExpire(w, expireErr)

\* POST /users/logout; G: the failures of the configuration and of the
\* blacklist lookup, E: the failures of the Redis commands of the handler
LogoutSteps(W, G, E) ==
    \/ \E w \in W, h \in Headers, cfgErr, lookupErr, handlerCfgErr \in G :
          LogoutStart(w, h, cfgErr, lookupErr, handlerCfgErr)
    \/ \E w \in W, addErr \in E : LogoutAddToBlacklist(w, addErr)
    \/ \E w \in W, sessErr \in E : LogoutDeleteSession(w, sessErr)
    \/ \E w \in W, delErr \in E : LogoutDeleteRefreshToken(w, delErr)

\* POST /users/refresh with the tokens handed out and the tokens X
RefreshSteps(W, X, G, E) ==
    \/ \E w \in W, t \in {i.tok : i \in issued} \cup X, cfgErr \in G, getErr \in E :
          RefreshTokenStart(w, t, cfgErr, getErr)
    \/ \E w \in W, userErr \in G : RefreshTokenGetUser(w, userErr)
    \/ \E w \in W, genErr \in G, saveErr \in E : RefreshTokenSave(w, genErr, saveErr)

\* login, logout and a protected route, used by the accounts U until the
\* instant T, with the failures of the gate (configuration, blacklist lookup)
AuthNext(W, U, T) ==
    \/ LoginSteps(W, U, BOOLEAN, {FALSE}, {FALSE})
    \/ \E h \in Headers, cfgErr, lookupErr \in BOOLEAN :
          ProtectedRequest(h, cfgErr, lookupErr, FALSE)
    \/ LogoutSteps(W, BOOLEAN, {FALSE})
    \/ Tick(T)

\* the identities AuthMiddleware leaves for the accounts U
IdentitiesOf(U) == {ident \in Identities : ident.user_id \in U}

\* the request would insert a composition and the table is full
NoRoom(ident, iid, amount, cap) ==
    /\ iid # 0 /\ amount >= 1
    /\ FirstDraft(ident.user_id) = 0
    /\ Len(comps) + PendingCreates >= cap

\* the cart: POST /intervals/add-to-composition, served by the workers W, while
\* the table holds at most cap rows
CartNext(W, U, I, A, cap) ==
    \/ \E w \in W, ident \in IdentitiesOf(U), iid \in I, amount \in A :
          /\ ~NoRoom(ident, iid, amount, cap)
          /\ AddIntervalStart(w, ident, iid, amount)
    \/ \E w \in W : AddIntervalCreate(w)
    \/ \E w \in W : AddIntervalFindItem(w)
    \/ \E w \in W :
          /\ NewRow(workers[w].cid, workers[w].iid) <= MaxRows
          /\ AddIntervalInsert(w)
    \/ \E w \in W, upsert \in BOOLEAN : AddIntervalSave(w, upsert)

\* the creator's endpoints: form and delete
CreatorNext(W, U, Ids) ==
    \/ \E w \in W, ident \in IdentitiesOf(U), id \in Ids : FormCompositionStart(w, ident, id)
    \/ \E w \in W : FormCompositionCount(w)
    \/ \E w \in W : FormCompositionUpdate(w)
    \/ \E w \in W, ident \in IdentitiesOf(U), id \in Ids : DeleteCompositionStart(w, ident, id)
    \/ \E w \in W : DeleteCompositionUpdate(w)

\* the request would start a goroutine and as many as the runs keep are in
\* flight for the composition
CalculationsFull(ident, id) ==
    /\ ModeratorOnly(ident) = 0
    /\ ~UpdateCompositionFieldsErr(id)
    /\ CopiesIn(id, calculations) >= MaxCalculations

\* the moderator routes: complete and reject
ModeratorNext(U, Ids) ==
    \/ \E ident \in IdentitiesOf(U), id \in Ids :
          /\ ~CalculationsFull(ident, id)
          /\ CompleteComposition(ident, id)
    \/ \E ident \in IdentitiesOf(U), id \in Ids : RejectComposition(ident, id)

\* the calculation callback
CallbackNext(W, Ids, R, K) ==
    \/ \E w \in W, id \in Ids, result \in R, apiKey \in K :
          ReceiveCalculationResultStart(w, id, result, apiKey)
    \/ \E w \in W : ReceiveCalculationResultUpdate(w)

\* PUT /compositions/:id
FieldsNext(W, U, Ids) ==
    \/ \E w \in W, ident \in IdentitiesOf(U), id \in Ids,
          belonging \in BelongingInputs, title \in TitleInputs :
          UpdateFieldsStart(w, ident, id, belonging, title)
    \/ \E w \in W : UpdateFieldsWrite(w)

\* DELETE and PUT /composition-intervals
ItemsNext(W, U, Ids, I, A) ==
    \/ \E w \in W, ident \in IdentitiesOf(U), id \in Ids, iid \in I :
          RemoveFromCompositionStart(w, ident, id, iid)
    \/ \E w \in W : RemoveFromCompositionWrite(w)
    \/ \E w \in W, ident \in IdentitiesOf(U), id \in Ids, iid \in I, amount \in A :
          UpdateCompositionIntervalStart(w, ident, id, iid, amount)
    \/ \E w \in W : UpdateCompositionIntervalWrite(w)

\* GET /compositions
ListingNext(U, S, D) ==
    \E ident \in IdentitiesOf(U), status \in S, dateFrom, dateTo \in D :
        GetCompositions(ident, status, dateFrom, dateTo)

\* GET /compositions/comp-cart
CartIconNext(W, U) ==
    \/ \E w \in W, ident \in IdentitiesOf(U) : GetCompositionCartStart(w, ident)
    \/ \E w \in W : GetCompositionCartCount(w)

\* GET /compositions/:id
ViewNext(W, U, Ids) ==
    \/ \E w \in W, ident \in IdentitiesOf(U), id \in Ids : ViewCompositionStart(w, ident, id)
    \/ \E w \in W : ViewCompositionItems(w)

\* authentication: login, logout and the gate, with the clock, for one
\* account (the Redis keys of different accounts are disjoint)
AuthNext1 == AuthNext({1}, {1}, MaxTime)
SpecAuth == Init /\ [][AuthNext1]_vars

\* the same with the refresh requests of the account, with or without a Redis
\* client, over a shorter time
DegradedNext ==
    \/ AuthNext({1}, {1}, MaxFlowTime)
    \/ RefreshSteps({1}, {ForgedToken, EmptyToken}, {FALSE}, {FALSE})
SpecDegraded == Init /\ [][DegradedNext]_vars

\* the token codec: generate for any user row, secret and lifetime, validate
\* with any secret at any later instant
CodecNext ==
    \/ \E user \in UserRows, secret \in Secrets, expiresIn \in Lifetimes :
          CodecGenerateAccess(user, secret, expiresIn)
    \/ \E user \in UserRows, secret \in Secrets, expiresIn \in Lifetimes :
          CodecGenerateRefresh(user, secret, expiresIn)
    \/ \E i \in issued, secret \in Secrets : CodecValidate(i.tok, secret)
    \/ ClockTick(MaxTime)
SpecCodec == Init /\ [][CodecNext]_vars

\* the two gates: tokens of both accounts, presented to a protected route, to
\* a moderator route and to logout, and ModeratorOnly on every context
GateNext ==
    \/ LoginSteps({1}, Users, {TRUE}, {FALSE}, {FALSE})
    \/ \E h \in Headers, cfgErr, lookupErr, userErr \in BOOLEAN :
          ProtectedRequest(h, cfgErr, lookupErr, userErr)
    \/ \E h \in Headers, cfgErr, lookupErr \in BOOLEAN :
          ModeratorRequest(1, h, cfgErr, lookupErr, 1)
    \/ ModeratorRequestUpdate(1)
    \/ LogoutSteps({1}, {FALSE}, {FALSE})
    \/ \E ctx \in GateContexts : ModeratorGate(ctx)
SpecGate == Init /\ [][GateNext]_vars

\* the optional gate: the tokens of an account, logged out or not, presented
\* to a route behind OptionalAuth while time passes
OptionalNext ==
    \/ LoginSteps({1}, {1}, {TRUE}, {FALSE}, {FALSE})
    \/ LogoutSteps({1}, {FALSE}, {FALSE})
    \/ \E h \in Headers, cfgErr, lookupErr \in BOOLEAN :
          OptionalRequest(h, cfgErr, lookupErr)
    \/ Tick(MaxFlowTime)
SpecOptional == Init /\ [][OptionalNext]_vars

\* the workflow does not touch Redis: its runs start with the client present
FlowInit == Init /\ redisClient

\* the workflow with add-item requests in flight at once: the table with the
\* pair as its key, and without
RaceInit == InitKeyed(TableKeys) /\ redisClient

\* login and logout of one account, and its refresh requests served at the
\* same time as they, with the store answering every command, with the
\* clock (the Redis keys of different accounts are disjoint)
LogoutNext ==
    \/ LoginSteps({1}, {1}, {TRUE}, {FALSE}, {FALSE})
    \/ LogoutSteps({1}, {FALSE}, {FALSE})
    \/ RefreshSteps({2}, {ForgedToken}, {FALSE}, {FALSE})
    \/ Tick(MaxFlowTime)
SpecLogout == FlowInit /\ [][LogoutNext]_vars

\* the rotation of the refresh token of one account: logins and refresh
\* requests served at the same time, with or without a Redis client, Redis
\* failing or not, with the clock
RotateNext ==
    \/ LoginSteps(Workers, {1}, {TRUE}, {FALSE}, BOOLEAN)
    \/ RefreshSteps(Workers, {ForgedToken, EmptyToken}, {FALSE}, BOOLEAN)
    \/ Tick(MaxTime)
SpecRotate == Init /\ [][RotateNext]_vars

\* refresh requests of one account served at the same time, with the clock
RefreshRaceNext ==
    \/ LoginSteps({1}, {1}, {TRUE}, {FALSE}, {FALSE})
    \/ RefreshSteps(Workers, {}, {FALSE}, {FALSE})
    \/ Tick(MaxTime)
SpecRefreshRace == FlowInit /\ [][RefreshRaceNext]_vars

\* the repository's UpdateCompositionFields called on a table of several rows
RepositoryNext ==
    \/ CartNext({1}, {1}, {1}, {1}, MaxComp)
    \/ CreatorNext({1}, {1}, 1..MaxComp)
    \/ \E id \in 0..(MaxComp + 1), K \in {{}, ProtectedKeys} :
          RepositoryUpdate(id, K, TRUE)
    \/ Tick(MaxFlowTime)
SpecRepository == FlowInit /\ [][RepositoryNext]_vars

\* the life of one composition with one creator request at a time: the cart
\* and its items, form and delete, complete and reject
SeqNext ==
    \/ CartNext({1}, Users, {0, 1}, {0, 1}, SeqComp)
    \/ ItemsNext({1}, Users, 1..SeqComp, {1}, {1})
    \/ CreatorNext({1}, Users, 1..(SeqComp + 1))
    \/ ModeratorNext(Users, 1..(SeqComp + 1))
SpecSeq == FlowInit /\ [][SeqNext]_vars

\* moderation of compositions whose fields the creator has filled in
ModerateNext ==
    \/ CartNext({1}, {1}, {1}, {1}, SeqComp)
    \/ FieldsNext({1}, {1}, 1..SeqComp)
    \/ CreatorNext({1}, {1}, 1..SeqComp)
    \/ ModeratorNext(Users, 1..(SeqComp + 1))
SpecModerate == FlowInit /\ [][ModerateNext]_vars

\* every statement that writes a row of compositions, with the clock: the
\* cart, and on the first composition the fields, form and delete, complete
\* and reject, the callback, and UpdateCompositionFields called with the
\* protected keys
ColumnsNext ==
    \/ CartNext({1}, {1}, {1}, {1}, SeqComp)
    \/ FieldsNext({1}, {1}, {1})
    \/ CreatorNext({1}, {1}, {1})
    \/ ModeratorNext({2}, {1})
    \/ CallbackNext({2}, {1}, {Belongs, NotBelongs}, {expectedAPIKey})
    \/ \E id \in {0, 1}, K \in {{}, ProtectedKeys}, withTitle \in BOOLEAN :
          RepositoryUpdate(id, K, withTitle)
    \/ Tick(MaxFlowTime)
SpecColumns == FlowInit /\ [][ColumnsNext]_vars

\* two requests of one creator in flight at once
ConcNext ==
    \/ CartNext(Workers, {1}, Intervals, {1}, MaxComp)
    \/ CreatorNext(Workers, {1}, 1..MaxComp)
SpecConc == RaceInit /\ [][ConcNext]_vars

\* the listing over compositions of both accounts in every status (the moderator
\* acts on the first composition)
ListNext ==
    \/ CartNext({1}, Users, {1}, {1}, MaxComp)
    \/ CreatorNext({1}, Users, 1..MaxComp)
    \/ ModeratorNext({2}, {1})
    \/ ListingNext(Users, StatusFilters, {0, 2})
SpecList == FlowInit /\ [][ListNext]_vars

\* the view by id over compositions of both accounts in every status (the
\* moderator acts on the first composition), served while the requests that
\* write are served
ViewSpecNext ==
    \/ CartNext({1}, Users, {1}, {1}, MaxComp)
    \/ CreatorNext({1}, Users, 1..MaxComp)
    \/ ModeratorNext({2}, {1})
    \/ ViewNext({2}, Users, CompIds(MaxComp))
SpecView == FlowInit /\ [][ViewSpecNext]_vars

\* the item rows of one composition while two requests of its creator are in
\* flight: add, update and remove an item, form and delete
ItemRaceNext ==
    \/ CartNext(Workers, {1}, {0, 1}, {0, 1}, SeqComp)
    \/ ItemsNext(Workers, {1}, 1..SeqComp, {1}, {0, 2})
    \/ CreatorNext(Workers, {1}, 1..SeqComp)
SpecItemRace == RaceInit /\ [][ItemRaceNext]_vars

\* the cart with one request at a time: both accounts add both intervals with
\* either amount, and form or delete the first composition
CartSpecNext ==
    \/ CartNext({1}, Users, Intervals, Amounts, MaxComp)
    \/ CreatorNext({1}, Users, {1})
SpecCart == FlowInit /\ [][CartSpecNext]_vars

\* the items of one composition: its creator adds both intervals, forms or
\* deletes it; both accounts remove and update items while these requests
\* are served
RemoveSpecNext ==
    \/ CartNext({1}, {1}, Intervals, {1}, SeqComp)
    \/ ItemsNext({2}, Users, CompIds(SeqComp), {0} \cup Intervals, {2})
    \/ CreatorNext({1}, {1}, 1..SeqComp)
SpecRemove == FlowInit /\ [][RemoveSpecNext]_vars

\* the moderator routes as routed: the tokens of both accounts presented to
\* complete and reject, on a composition its creator makes, forms or deletes
ModeratorRouteNext ==
    \/ LoginSteps({1}, Users, {TRUE}, {FALSE}, {FALSE})
    \/ CartNext({1}, {1}, {1}, {1}, SeqComp)
    \/ CreatorNext({1}, {1}, 1..SeqComp)
    \/ \E h \in IssuedHeaders, cfgErr \in BOOLEAN :
          /\ CopiesIn(1, calculations) < MaxCalculations
          /\ ModeratorRequest(2, h, cfgErr, FALSE, 1)
    \/ ModeratorRequestUpdate(2)
    \/ \E h \in IssuedHeaders, cfgErr \in BOOLEAN, id \in 1..SeqComp :
          RejectRequest(2, h, cfgErr, FALSE, id)
    \/ RejectRequestUpdate(2)
SpecModeratorRoute == FlowInit /\ [][ModeratorRouteNext]_vars

\* the cart icon, asked for by both accounts while the creator's requests
\* are served
CartViewNext ==
    \/ CartNext({1}, {1}, Intervals, {1}, MaxComp)
    \/ CreatorNext({1}, {1}, 1..MaxComp)
    \/ CartIconNext({2}, Users)
SpecCartView == FlowInit /\ [][CartViewNext]_vars

\* PUT /compositions/:id by the creator and by another account, served while
\* the creator's other requests are served: the cart, form and delete
FieldsSpecNext ==
    \/ CartNext({1}, {1}, {1}, {1}, SeqComp)
    \/ FieldsNext({2}, Users, CompIds(SeqComp))
    \/ CreatorNext({1}, {1}, 1..SeqComp)
    \/ Tick(MaxFlowTime)
SpecFields == FlowInit /\ [][FieldsSpecNext]_vars

\* completion and its goroutine: one composition is made, formed, completed
\* or rejected, and each goroutine returns with any outcome or never
CalculationSpecNext ==
    \/ CartNext({1}, {1}, {1}, {1}, SeqComp)
    \/ CreatorNext({1}, {1}, 1..SeqComp)
    \/ ModeratorNext(Users, 1..(SeqComp + 1))
    \/ \E id \in 1..SeqComp, outcome \in CalculationOutcomes :
          CalculationReturns(id, outcome)
SpecCalculation == FlowInit /\ [][CalculationSpecNext]_vars

\* the calculation callback against a composition in every status
CallbackSpecNext ==
    \/ CartNext({1}, {1}, {1}, {1}, SeqComp)
    \/ CreatorNext({1}, {1}, {1})
    \/ ModeratorNext({2}, {1})
    \/ CallbackNext({2}, CompIds(SeqComp), Results, APIKeys)
SpecCallback == FlowInit /\ [][CallbackSpecNext]_vars

----------------------------------------------------------------------------
(* Claims about the authentication endpoints (SpecAuth) *)

\* a step in which a request bearing a token that is in the blacklist was
\* answered as AuthMiddleware left it (by the middleware itself, or at once
\* by the handler behind it)
BlacklistedRequest ==
    /\ last'.op \in {"Protected", "Logout"}
    /\ workers' = workers
    /\ IsInBlacklist(last'.tok)

\* a step in which AuthMiddleware let a Logout bearing a token that is in the
\* blacklist go on to the handler's Redis commands
BlacklistedGoesOn(w) ==
    /\ workers[w].pc = "idle"
    /\ workers'[w].pc = "logoutBlacklist"
    /\ IsInBlacklist(workers'[w].upd.tok)

\* C1 (as the code has it): while a token is in the blacklist and the lookup of
\* the blacklist itself succeeds, AuthMiddleware aborts every request bearing
\* the token and leaves no identity in the context, although ValidateToken
\* may still accept the token; it answers 401, or 500 when it cannot read the
\* configuration.
C1_BlacklistedRejected ==
    [][/\ (BlacklistedRequest /\ "blacklist check failed" \notin last'.log) =>
             /\ ~last'.ctx.set
             /\ last'.code = IF "config failed" \in last'.log THEN 500 ELSE 401
       /\ \A w \in Workers :
             BlacklistedGoesOn(w) => "blacklist check failed" \in workers'[w].upd.log
      ]_vars

\* C1 as stated: a token in the blacklist is rejected with 401 by every request
C1_AsStated ==
    [][/\ BlacklistedRequest => (last'.code = 401 /\ ~last'.ctx.set)
       /\ \A w \in Workers : ~BlacklistedGoesOn(w)]_vars

\* a request was refused for the blacklist alone: its token still validates
C1_Witness ==
    /\ last.op = "Protected"
    /\ last.code = 401
    /\ ~last.ctx.set
    /\ last.log = {}
    /\ IsInBlacklist(last.tok)
    /\ ValidateToken(last.tok, JWTSecret)

\* the refresh tokens the server has issued to the subject u and not yet expired
RefreshTokensOf(u) == {i.tok : i \in {j \in issued : j.use = "refresh" /\ j.tok.uid = u}}

\* the token strings RefreshToken would accept for the subject u right now
AcceptedFor(u) ==
    {t \in {i.tok : i \in issued} \cup {ForgedToken} :
        t.uid = u /\ RefreshTokenCheck(t, FALSE, FALSE) = 0}

\* the step just taken issued a new refresh token
IssuedRefresh == last.op \in {"Login", "RefreshToken"} /\ last.code = 200

\* the step in which the Login served by the worker w has stored its refresh
\* token without error
LoginStored(w) ==
    /\ redisClient
    /\ workers[w].pc = "loginSaveRefresh" /\ workers'[w].pc = "loginHSet"
    /\ "save refresh token failed" \notin workers'[w].upd.log

\* the step in which the RefreshToken served by the worker w has stored its
\* new refresh token without error
RefreshStored(w) ==
    /\ redisClient
    /\ workers[w].pc = "refreshSave" /\ workers'[w].pc = "idle"
    /\ last'.op = "RefreshToken" /\ last'.code = 200 /\ last'.log = {}

\* a RefreshToken request is refused by its check: it is answered at once
RefusedRefresh == last'.op = "RefreshToken" /\ workers' = workers

\* C4 (as the code has it): while a Redis client exists, at most one token
\* string per subject passes RefreshToken's check, the one stored under
\* refresh:token:<uid>.  Once a Login or RefreshToken has stored a new refresh
\* token without error, that token is the one that passes, and a request
\* whose check runs from then on and presents any other refresh token issued
\* to the subject is answered 401 with no tokens issued and nothing stored.
C4_OneRefreshTokenStored ==
    /\ [](redisClient => \A u \in Users :
            /\ Cardinality(AcceptedFor(u)) <= 1
            /\ \A t \in AcceptedFor(u) : GetRefreshToken(u).tok = t)
    /\ [][\A w \in Workers, u \in Users :
             /\ (LoginStored(w) /\ workers[w].uid = u) =>
                   /\ AcceptedFor(u)' \subseteq {workers[w].upd.refresh}
                   /\ ValidateToken(workers[w].upd.refresh, JWTSecret) =>
                         RefreshTokenCheck(workers[w].upd.refresh, FALSE, FALSE)' = 0
             /\ (RefreshStored(w) /\ workers[w].uid = u) =>
                   AcceptedFor(u)' = {last'.refresh}]_vars
    /\ [][\A w \in Workers :
             (workers[w].pc = "idle" /\ workers'[w].pc = "refreshUser") =>
                RefreshTokenCheck(workers'[w].upd.refresh_token, FALSE, FALSE) = 0]_vars
    /\ [][RefusedRefresh =>
             /\ last'.code \in {400, 401}
             /\ last'.code = 400 <=> last'.tok = EmptyToken
             /\ last'.access = EmptyToken /\ last'.refresh = EmptyToken
             /\ issued' = issued /\ refreshStore' = refreshStore]_vars
    /\ [][(redisClient /\ last'.op = "RefreshToken" /\ last'.tok # EmptyToken
             /\ GetRefreshToken(last'.tok.uid).tok # last'.tok
             /\ \A w \in Workers :
                   workers[w].pc \in {"refreshUser", "refreshSave"} =>
                      workers[w].upd.refresh_token # last'.tok) =>
                (RefusedRefresh /\ last'.code = 401)]_vars

\* C4 as stated: after any Login or successful RefreshToken, every refresh
\* token issued to the subject earlier is refused
C4_AsStated ==
    IssuedRefresh =>
        \A t \in RefreshTokensOf(last.refresh.uid) \ {last.refresh} :
            RefreshTokenCheck(t, FALSE, FALSE) = 401

\* an unexpired refresh token of the subject was refused because a newer one is stored
C4_Witness ==
    /\ redisClient
    /\ last.op = "RefreshToken" /\ last.code = 401
    /\ last.tok \in RefreshTokensOf(last.tok.uid)
    /\ ValidateToken(last.tok, JWTSecret)
    /\ GetRefreshToken(last.tok.uid).found
    /\ GetRefreshToken(last.tok.uid).tok # last.tok
    /\ GetRefreshToken(last.tok.uid).tok \in RefreshTokensOf(last.tok.uid)

\* the step answered a request on which AuthMiddleware, having read its
\* configuration, could not ask the store
StoreUnavailableRequest ==
    /\ last'.op \in {"Protected", "Logout"}
    /\ ~redisClient \/ "blacklist check failed" \in last'.log
    /\ last'.ctx.set \/ "config failed" \notin last'.log

\* C12: when there is no Redis client, or the blacklist lookup returns an
\* error, AuthMiddleware lets a request through whose token passes
\* ValidateToken and leaves the token's identity in the context (it answers
\* no 401); and with no client a Login with accepted credentials, a
\* RefreshToken with a token that passes ValidateToken and a Logout that
\* passed AuthMiddleware (none of them failing for another reason) answer
\* 200 without waiting on Redis, log nothing and leave the blacklist, the
\* stored refresh tokens and the sessions as they were (empty).
C12_StoreUnavailableDegrades ==
    /\ [][(StoreUnavailableRequest /\ ValidateToken(last'.tok, JWTSecret))
            => (last'.code # 401 /\ last'.ctx = Identity(last'.tok))]_vars
    /\ [](\A h \in Headers, lookupErr \in BOOLEAN :
            ((~redisClient \/ lookupErr) /\ h.kind = "bearer"
               /\ ValidateToken(h.tok, JWTSecret)) =>
                  /\ AuthMiddleware(h, FALSE, lookupErr).code = 200
                  /\ AuthMiddleware(h, FALSE, lookupErr).ctx = Identity(h.tok))
    /\ [][~redisClient =>
            /\ blacklist' = blacklist /\ refreshStore' = refreshStore
            /\ sessions' = sessions
            /\ \A w \in Workers :
                  workers'[w].pc \in {"idle", "refreshUser", "refreshSave"}
            /\ (last'.op = "Login" /\ last'.code \notin {400, 401}
                  /\ "config failed" \notin last'.log
                  /\ "generate token failed" \notin last'.log) =>
                      /\ last'.code = 200 /\ last'.log = {}
                      /\ last'.access # EmptyToken /\ last'.refresh # EmptyToken
                      /\ workers' = workers
            /\ \A w \in Workers :
                  (workers[w].pc = "idle" /\ workers'[w].pc = "refreshUser") =>
                      ValidateToken(workers'[w].upd.refresh_token, JWTSecret)
            /\ (last'.op = "RefreshToken" /\ last'.tok # EmptyToken
                  /\ ValidateToken(last'.tok, JWTSecret) /\ workers' = workers) =>
                      last'.code = 500 /\ last'.log = {"config failed"}
            /\ (last'.op = "RefreshToken" /\ workers' # workers
                  /\ last'.code # 401
                  /\ "generate token failed" \notin last'.log) =>
                      /\ last'.code = 200 /\ last'.log = {}
                      /\ last'.access # EmptyToken /\ last'.refresh # EmptyToken
            /\ (last'.op = "Logout" /\ last'.ctx.set
                  /\ "config failed" \notin last'.log) =>
                      /\ last'.code = 200 /\ last'.log = {}
                      /\ workers' = workers]_vars
    /\ [](~redisClient =>
            /\ DOMAIN blacklist = {}
            /\ \A u \in Users : ~refreshStore[u].present /\ sessions[u] = 0)

\* with no Redis client a Logout was answered 200, and the token it presented
\* still passes AuthMiddleware
C12_Witness ==
    /\ ~redisClient
    /\ last.op = "Logout" /\ last.code = 200
    /\ last.ctx = Identity(last.tok)
    /\ AuthMiddleware([kind |-> "bearer", tok |-> last.tok], FALSE, FALSE).code = 200

\* a step in which the Logout served by the worker w stored the blacklist
\* entry of a token that was issued as an access token
AccessTokenLogout(w) ==
    /\ workers[w].pc = "logoutBlacklist"
    /\ workers'[w].pc = "logoutSession"
    /\ [tok |-> workers[w].upd.tok, use |-> "access"] \in issued

\* only the running out of its TTL takes a key out of the blacklist, and no
\* request shortens the TTL of a key
BlacklistNeverDeleted ==
    \A t \in DOMAIN blacklist :
       IF t \in DOMAIN blacklist'
       THEN blacklist'[t] >= blacklist[t]
       ELSE now' > now /\ now' >= blacklist[t]

\* C28 (as the code has it): Logout stores the blacklist entry of the
\* presented access token with a TTL equal to the configured lifetime of an
\* access token (JWTAccessExpire), counted from the moment of logout; the
\* entry therefore disappears no earlier than the token expires, and later
\* than that by the age the token had at logout.  No request deletes an
\* entry or shortens its TTL.
C28_BlacklistTTL ==
    [][/\ \A w \in Workers : AccessTokenLogout(w) =>
             LET t == workers[w].upd.tok IN
             /\ t \in DOMAIN blacklist'
             /\ blacklist'[t] = now + JWTAccessExpire
             /\ blacklist'[t] = t.exp + (now - t.iat)
       /\ BlacklistNeverDeleted
      ]_vars

\* C28 as stated: the entry Logout stores runs out at the instant the token
\* expires, and no entry is deleted
C28_AsStated ==
    [][/\ \A w \in Workers : AccessTokenLogout(w) =>
             LET t == workers[w].upd.tok IN
             /\ t \in DOMAIN blacklist'
             /\ blacklist'[t] = t.exp
       /\ BlacklistNeverDeleted
      ]_vars

\* an access token was used for a while and then logged out: its entry in the
\* blacklist runs out after the token does
C28_Witness ==
    /\ redisClient
    /\ last.op = "Logout" /\ last.code = 200
    /\ [tok |-> last.tok, use |-> "access"] \in issued
    /\ last.tok.iat < now
    /\ last.tok \in DOMAIN blacklist
    /\ blacklist[last.tok] = now + JWTAccessExpire
    /\ blacklist[last.tok] > last.tok.exp

\* C33 as stated: AuthMiddleware does not authenticate a request whose Bearer
\* credential is a token issued as a refresh token, so that once Logout has
\* blacklisted the access token no token of that login gets a protected
\* request through.
C33_AsStated ==
    [][(/\ last'.op = "Protected"
        /\ [tok |-> last'.tok, use |-> "refresh"] \in issued)
          => (last'.code # 200 /\ ~last'.ctx.set)]_vars

----------------------------------------------------------------------------
(* Claims about refresh requests served at the same time (SpecRefreshRace) *)

\* C34 as stated: a RefreshToken request is answered 200 for a refresh token
\* only when no other request that presented the same token has passed the
\* check of the stored token (past that check a request is answered 200 with
\* new tokens whatever happens), so at most one request redeems the token.
C34_AsStated ==
    [][\A w \in Workers :
          (workers[w].pc = "refreshSave" /\ workers'[w].pc = "idle"
             /\ last'.op = "RefreshToken" /\ last'.code = 200) =>
             \A v \in Workers \ {w} :
                ~(workers[v].pc \in {"refreshUser", "refreshSave"}
                    /\ workers[v].upd = workers[w].upd)]_vars

----------------------------------------------------------------------------
(* Claims about logout with the store answering (SpecLogout) *)

\* a Logout of the user u has been answered 200 and the entry it stored is
\* still in the blacklist: an entry is there and no Logout of u is under way
LoggedOut(u) ==
    /\ \E a \in DOMAIN blacklist : a.uid = u /\ IsInBlacklist(a)
    /\ \A w \in Workers : ~(workers[w].op = "Logout" /\ workers[w].uid = u)

\* C35 as stated: with a Redis client that answers every command, once a
\* Logout of a user has been answered 200 the user has no stored refresh
\* token until a Login stores one: no other request stores a refresh token
\* for a user who has none, and a RefreshToken request that finds none
\* stored is answered 401.
C35_AsStated ==
    [][\A u \in Users :
          /\ (LoggedOut(u) /\ ~refreshStore[u].present /\ refreshStore'[u].present) =>
                \E w \in Workers :
                   /\ workers[w].pc = "loginSaveRefresh" /\ workers[w].uid = u
                   /\ workers'[w].pc = "loginHSet"
          /\ \A w \in Workers :
                (/\ ~refreshStore[u].present /\ workers[w].pc = "idle"
                 /\ last'.op = "RefreshToken" /\ last'.tok.uid = u
                 /\ workers' = workers) => last'.code = 401
      ]_vars

----------------------------------------------------------------------------
(* Claims about the two gates (SpecGate) *)

\* C15 (as the code has it): ModeratorOnly lets the request go on only when the
\* context holds is_moderator = true; it aborts with 403 Forbidden when the
\* flag is false and with 401 Unauthorized when the flag is absent.  On the
\* moderator routes the handler is reached only by a moderator (a request
\* AuthMiddleware aborts, with 401 or 500, reaches neither gate nor handler),
\* and an authenticated user who is not one is answered 403 with nothing
\* changed.
C15_ModeratorOnlyGate ==
    /\ last.op = "ModeratorOnly" =>
          last.code = (IF ~last.ctx.set THEN 401
                       ELSE IF ~last.ctx.is_moderator THEN 403 ELSE 0)
    /\ (last.op = "CompleteComposition" /\ last.code \notin {401, 403}
           /\ "config failed" \notin last.log) =>
          (last.uid \in Users /\ UserRow(last.uid).IsModerator)
    /\ (last.op = "CompleteComposition" /\ last.uid \in Users
           /\ ~UserRow(last.uid).IsModerator) => last.code = 403
    /\ comps = <<>>

\* C15 as stated: ModeratorOnly lets the request go on when is_moderator is
\* true and aborts with Forbidden when the flag is absent or false
C15_AsStated ==
    last.op = "ModeratorOnly" =>
        last.code = (IF last.ctx.set /\ last.ctx.is_moderator THEN 0 ELSE 403)

\* a request to a moderator route with the valid token of a user who is not a
\* moderator was answered 403
C15_Witness ==
    /\ last.op = "CompleteComposition" /\ last.code = 403
    /\ last.uid = 1
    /\ \E i \in issued : i.tok.uid = 1 /\ ~i.tok.mod /\ ValidateToken(i.tok, JWTSecret)

\* C16: AuthMiddleware answers 401 and leaves no identity when the header is
\* missing, is not "Bearer <token>" or carries an empty token; it lets the
\* request go on only when the blacklist lookup (made first, when there is a
\* client) did not find the token and ValidateToken (made second) accepted
\* it, and then user_id, login and is_moderator in the context are the
\* token's claims.  The lookup comes first: its failure is logged even when
\* ValidateToken then refuses the token.  Between the checks of the header
\* and the lookup the middleware reads its configuration, and answers 500,
\* with no identity, when that fails.  (A request that went on is answered
\* by the handler: GetProfile answers 200, or 404 when it cannot read the user.)
C16_AuthMiddlewareGate ==
    [][last'.op = "Protected" =>
       \A h \in {x \in Headers : x.tok = last'.tok}, cfgErr, lookupErr, userErr \in BOOLEAN :
          ProtectedRequest(h, cfgErr, lookupErr, userErr) =>
             /\ last'.code \in {200, 401, 404, 500}
             /\ (h.kind # "bearer" \/ h.tok = EmptyToken) =>
                   (last'.code = 401 /\ ~last'.ctx.set /\ last'.log = {})
             /\ last'.code \notin {200, 404} => ~last'.ctx.set
             /\ last'.code = 500 <=> (h.kind = "bearer" /\ h.tok # EmptyToken /\ cfgErr)
             /\ last'.code = 404 => userErr
             /\ last'.code \in {200, 404} =>
                   /\ h.kind = "bearer" /\ h.tok # EmptyToken
                   /\ ~(redisClient /\ ~lookupErr /\ IsInBlacklist(h.tok))
                   /\ ValidateToken(h.tok, JWTSecret)
                   /\ last'.ctx.set
                   /\ last'.ctx.user_id = TokenClaims(h.tok).UserID
                   /\ last'.ctx.login = TokenClaims(h.tok).Login
                   /\ last'.ctx.is_moderator = TokenClaims(h.tok).IsModerator
             /\ (h.kind = "bearer" /\ h.tok # EmptyToken /\ ~cfgErr
                   /\ redisClient /\ lookupErr
                   /\ ~ValidateToken(h.tok, JWTSecret)) =>
                   "blacklist check failed" \in last'.log]_vars

\* a protected request with a moderator's token went through while another
\* token was in the blacklist, and the context holds the moderator's identity
C16_Witness ==
    /\ redisClient
    /\ last.op = "Protected" /\ last.code = 200
    /\ last.ctx = [set |-> TRUE, user_id |-> 2, login |-> 2, is_moderator |-> TRUE]
    /\ last.tok.uid = 2 /\ last.tok.mod
    /\ \E t \in DOMAIN blacklist : t # last.tok /\ IsInBlacklist(t)

----------------------------------------------------------------------------
(* Claims about the optional gate (SpecOptional) *)

\* OptionalAuth leaves no identity for the header h
Anonymous(h) == h.kind # "bearer" \/ h.tok = EmptyToken
                   \/ ~ValidateToken(h.tok, JWTSecret)

\* C30 (as the code has it): OptionalAuth never aborts a request.  With a
\* missing or malformed header, an empty token, a token ValidateToken
\* refuses, or a token that the blacklist lookup reports as blacklisted, it
\* calls the next handler with no identity in the context.  An identity is
\* put into the context only for a token that passes ValidateToken and that
\* the lookup did not report: a blacklisted token whose lookup fails is not
\* reported and gets its identity.
C30_OptionalAuthNeverAborts ==
    [][last'.op = "Optional" =>
       \A h \in {x \in Headers : x.tok = last'.tok}, cfgErr, lookupErr \in BOOLEAN :
          OptionalRequest(h, cfgErr, lookupErr) =>
             /\ last'.code = 200
             /\ (Anonymous(h) \/ (redisClient /\ ~lookupErr /\ IsInBlacklist(h.tok)))
                   => ~last'.ctx.set
             /\ last'.ctx.set =>
                   /\ ~Anonymous(h)
                   /\ ~(redisClient /\ ~lookupErr /\ IsInBlacklist(h.tok))
                   /\ last'.ctx = Identity(h.tok)]_vars

\* C30 as stated: no identity for a token that is in the blacklist
C30_AsStated ==
    [][last'.op = "Optional" =>
       \A h \in {x \in Headers : x.tok = last'.tok}, cfgErr, lookupErr \in BOOLEAN :
          OptionalRequest(h, cfgErr, lookupErr) =>
             /\ last'.code = 200
             /\ (Anonymous(h) \/ IsInBlacklist(h.tok)) => ~last'.ctx.set
             /\ last'.ctx.set =>
                   /\ ~Anonymous(h)
                   /\ ~IsInBlacklist(h.tok)
                   /\ last'.ctx = Identity(h.tok)]_vars

\* a request with a logged-out token that ValidateToken still accepts went
\* on to the handler as an anonymous one
C30_Witness ==
    /\ redisClient
    /\ last.op = "Optional" /\ last.code = 200
    /\ ~last.ctx.set /\ last.log = {}
    /\ IsInBlacklist(last.tok)
    /\ ValidateToken(last.tok, JWTSecret)

----------------------------------------------------------------------------
(* Claims about the token codec (SpecCodec) *)

\* C11: for every user row, secret and positive lifetime, ValidateToken with
\* the same secret accepts the token GenerateAccessToken or GenerateRefreshToken
\* made, and returns the user id, login and moderator flag of that user row,
\* at every instant before the token's expiry; at every instant past the
\* expiry it returns an error.
C11_RoundTripUntilExpiry ==
    \A i \in issued :
        /\ i.expiresIn > 0
        /\ now < i.at + i.expiresIn =>
              /\ ValidateToken(i.tok, i.secret)
              /\ TokenClaims(i.tok).UserID = i.user.User_ID
              /\ TokenClaims(i.tok).Login = i.user.Login
              /\ TokenClaims(i.tok).IsModerator = i.user.IsModerator
        /\ now > i.at + i.expiresIn => ~ValidateToken(i.tok, i.secret)
        /\ (last.op = "ValidateToken" /\ last.tok = i.tok /\ last.log = {}) =>
              /\ last.ctx.user_id = i.user.User_ID
              /\ last.ctx.login = i.user.Login
              /\ last.ctx.is_moderator = i.user.IsModerator

\* a refresh token made for a moderator whose login differs from the user id
\* is past its expiry and ValidateToken refuses it
C11_Witness ==
    \E i \in issued :
        /\ i.use = "refresh" /\ i.user.IsModerator /\ i.user.Login # i.user.User_ID
        /\ now > i.at + i.expiresIn
        /\ ~ValidateToken(i.tok, i.secret)

----------------------------------------------------------------------------
(* Claims about the life of a composition (SpecSeq, SpecConc) *)

\* the step answered a complete or reject request on composition id
ModeratorAnswer(id) ==
    /\ last'.op \in {"CompleteComposition", "RejectComposition"}
    /\ last'.cid = id

\* C2 as stated: a complete or reject request on a composition that is not
\* Formed is answered with an error and leaves status, moderator_id,
\* date_finish and belonging as they were.
C2_AsStated ==
    [][\A id \in DOMAIN comps :
          (ModeratorAnswer(id) /\ comps[id].status # Formed)
             => /\ last'.code >= 400
                /\ comps'[id].status = comps[id].status
                /\ comps'[id].moderator_id = comps[id].moderator_id
                /\ comps'[id].date_finish = comps[id].date_finish
                /\ comps'[id].belonging = comps[id].belonging]_vars

\* the status changes the workflow allows
LegalTransitions ==
    {<<Draft, Formed>>, <<Formed, Completed>>, <<Formed, Rejected>>, <<Draft, Deleted>>}

\* C3 as stated: every change of a composition's status is one of
\* Draft->Formed, Formed->Completed, Formed->Rejected, Draft->Deleted (so a
\* Completed, Rejected or Deleted composition never changes status again).
C3_AsStated ==
    [][\A id \in DOMAIN comps :
          comps'[id].status # comps[id].status
             => <<comps[id].status, comps'[id].status>> \in LegalTransitions]_vars

\* C5 as stated: every creator has at most one composition with status Draft
C5_AsStated == \A u \in Users : Cardinality(DraftsOf(u)) <= 1

\* C6: a form request whose count finds no item row is answered with an error
\* and changes no composition (the status stays Draft); a form request of the
\* creator on their Draft is not refused by the first SELECT, goes on to the
\* UPDATE once the count finds a row, and the UPDATE answers 200 and leaves the
\* status Formed; an add-item request with amount 1 that reaches its write
\* leaves a row for the composition.
C6_FormNeedsItems ==
    [][\A w \in Workers :
        /\ (workers[w].pc = "count" /\ workers'[w] # workers[w]) =>
              IF RowsOf(workers[w].cid) = {}
              THEN /\ last'.op = "FormComposition" /\ last'.code = 400
                   /\ comps' = comps
              ELSE workers'[w].pc = "formUpdate"
        /\ (workers[w].pc = "formUpdate" /\ workers'[w] # workers[w]) =>
              /\ last'.op = "FormComposition" /\ last'.code = 200
              /\ comps'[workers[w].cid].status = Formed
        /\ (workers' = workers
              /\ last'.op = "FormComposition" /\ last'.cid \in DOMAIN comps) =>
              ~(comps[last'.cid].status = Draft
                  /\ comps[last'.cid].creator_id = last'.uid)
        /\ (workers[w].pc \in {"insert", "save"} /\ workers'[w] # workers[w]
              /\ workers[w].amount = 1) =>
              /\ last'.code = 200
              /\ ItemRow(workers[w].cid, workers[w].iid, 1, 1) \in items'
       ]_vars

\* the creator formed a composition that holds one item with amount 1
C6_Witness ==
    /\ last.op = "FormComposition" /\ last.code = 200
    /\ comps[last.cid].status = Formed
    /\ comps[last.cid].creator_id = last.uid
    /\ RowsOf(last.cid) = {ItemRow(last.cid, 1, 1, 1)}

\* C7 as stated: a delete request is answered 200, with the status set to
\* Deleted, only when the status of the composition is Draft; on a composition
\* whose status is Formed, Completed, Rejected or Deleted it is answered with
\* an error and the composition is not changed. The status is the one the
\* composition has when the answer is given.
C7_AsStated ==
    [][(last'.op = "DeleteComposition" /\ last'.cid \in DOMAIN comps) =>
          IF comps[last'.cid].status = Draft
          THEN last'.code = 200 => comps'[last'.cid].status = Deleted
          ELSE last'.code >= 400 /\ comps' = comps
      ]_vars

\* C17: FormComposition changes a composition only for its creator: a form
\* request by any other authenticated user on a Draft composition that holds
\* items is answered with an error at its first SELECT and changes neither
\* the compositions nor the item rows; every form request that goes on past
\* the SELECT, and every one that reaches the UPDATE, is the creator's.
C17_FormOnlyByCreator ==
    [][\A w \in Workers :
        /\ (workers[w].pc = "idle" /\ last'.op = "FormComposition"
              /\ last'.cid \in DOMAIN comps
              /\ comps[last'.cid].creator_id # last'.uid) =>
              /\ last'.code = 400
              /\ workers' = workers
              /\ comps' = comps /\ items' = items
        /\ (workers[w].pc = "idle" /\ workers'[w].op = "FormComposition") =>
              comps[workers'[w].cid].creator_id = workers'[w].uid
        /\ (workers[w].pc = "formUpdate" /\ workers'[w] # workers[w]) =>
              /\ comps[workers[w].cid].creator_id = workers[w].uid
              /\ \A id \in DOMAIN comps : id # workers[w].cid => comps'[id] = comps[id]
       ]_vars

\* a form request by a user who is not the creator was refused, and the
\* composition is still a Draft that holds an item
C17_Witness ==
    /\ last.op = "FormComposition" /\ last.code = 400
    /\ last.cid \in DOMAIN comps
    /\ last.uid \in Users /\ comps[last.cid].creator_id # last.uid
    /\ comps[last.cid].status = Draft
    /\ RowsOf(last.cid) # {}

\* C18 as stated: a delete request changes a Draft composition to Deleted only
\* when the requester is the composition's creator; a delete request by any
\* other user is answered with an error and leaves the composition unchanged.
C18_AsStated ==
    [][\A w \in Workers :
        /\ (workers[w].pc = "deleteUpdate" /\ workers'[w] # workers[w]) =>
              comps[workers[w].cid].creator_id = workers[w].uid
        /\ (last'.op = "DeleteComposition" /\ last'.cid \in DOMAIN comps
              /\ comps[last'.cid].creator_id # last'.uid) =>
              (last'.code >= 400 /\ comps' = comps)
       ]_vars

----------------------------------------------------------------------------
(* Claims about the item rows under concurrent requests (SpecItemRace) *)

\* C21 as stated: the item rows of a composition change only while its status
\* is Draft: no step creates, updates or deletes a row of a composition whose
\* status has left Draft, however add-item, UpdateCompositionInterval and
\* RemoveFromComposition requests interleave with FormComposition and
\* DeleteComposition on it.
C21_AsStated ==
    [][\A id \in DOMAIN comps :
          comps[id].status # Draft =>
             {r \in items' : r.cid = id} = {r \in items : r.cid = id}]_vars

----------------------------------------------------------------------------
(* Claims about the cart, one request at a time (SpecCart) *)

\* the rows of items other than the one of the pair (cid, iid)
OtherRows(rows, cid, iid) == {r \in rows : ~(r.cid = cid /\ r.iid = iid)}

\* C23: AddIntervalToComposition(interval i, creator c, amount a), served with
\* no other request in between: when c has a Draft composition the call goes
\* on with it and creates none, otherwise it appends one composition, a Draft
\* with creator_id = c, and goes on with that; its write is answered 200 and
\* leaves that composition (a Draft of c) with exactly one row for i, whose
\* amount is a (the amount of an existing row is replaced), every other
\* row as it was and every composition as it was.
C23_AddUpserts ==
    [][\A w \in Workers :
        /\ (workers[w].pc = "idle" /\ workers'[w].op = "AddIntervalToComposition") =>
              /\ comps' = comps /\ items' = items
              /\ IF DraftsOf(workers'[w].uid) # {}
                 THEN /\ workers'[w].pc = "findItem"
                      /\ workers'[w].cid \in DraftsOf(workers'[w].uid)
                 ELSE workers'[w].pc = "create"
        /\ (workers[w].pc = "create" /\ workers'[w] # workers[w]) =>
              /\ Len(comps') = Len(comps) + 1
              /\ \A id \in DOMAIN comps : comps'[id] = comps[id]
              /\ comps'[Len(comps')].creator_id = workers[w].uid
              /\ comps'[Len(comps')].status = Draft
              /\ workers'[w].cid = Len(comps')
              /\ workers'[w].pc = "findItem"
              /\ items' = items
        /\ (workers[w].pc = "findItem" /\ workers'[w] # workers[w]) =>
              /\ comps' = comps /\ items' = items
              /\ workers'[w].pc \in {"insert", "save"}
        /\ (workers[w].pc \in {"insert", "save"} /\ workers'[w] # workers[w]) =>
              /\ last'.op = "AddIntervalToComposition" /\ last'.code = 200
              /\ comps' = comps
              /\ comps[workers[w].cid].creator_id = workers[w].uid
              /\ comps[workers[w].cid].status = Draft
              /\ {r \in items' : r.cid = workers[w].cid /\ r.iid = workers[w].iid}
                    = {ItemRow(workers[w].cid, workers[w].iid, workers[w].amount, 1)}
              /\ OtherRows(items', workers[w].cid, workers[w].iid)
                    = OtherRows(items, workers[w].cid, workers[w].iid)
       ]_vars

\* a creator whose first composition is Formed added to a second one, made for
\* them on demand: it holds interval 1 with the amount 2 of the last call and
\* interval 2 with amount 1, and the rows of the first composition are there
C23_Witness ==
    /\ last.op = "AddIntervalToComposition" /\ last.code = 200
    /\ last.cid = 2 /\ last.req.iid = 1 /\ last.req.amount = 2
    /\ comps[1].creator_id = last.uid /\ comps[1].status = Formed
    /\ comps[2].creator_id = last.uid /\ comps[2].status = Draft
    /\ RowsOf(2) = {ItemRow(2, 1, 2, 1), ItemRow(2, 2, 1, 1)}
    /\ RowsOf(1) # {}

----------------------------------------------------------------------------
(* Claims about the cart icon (SpecCartView) *)

\* C37: GetCompositionCart changes nothing; when its requester has no Draft
\* as it looks for one, it answers id 0 and count 0; else it answers the id of
\* the requester's first Draft, as it found it, with the number of item rows
\* that composition has when it counts them; once a form or a delete request
\* has been answered 200 its requester has no Draft for the cart to find; an
\* add-item request of a creator without a Draft inserts a composition under
\* an id no row had, and neither that insert nor the item row written after
\* it changes an earlier composition or one of its rows.
C37_CartFollowsDraft ==
    [][/\ (last'.op = "GetCompositionCart" /\ workers' = workers) =>
             /\ last'.code = 200
             /\ comps' = comps /\ items' = items
             /\ DraftsOf(last'.uid) = {}
             /\ last'.cid = 0 /\ last'.count = 0
       /\ \A w \in Workers :
             (workers[w].pc = "idle" /\ workers'[w].pc = "cartCount") =>
                /\ comps' = comps /\ items' = items
                /\ workers'[w].cid \in DraftsOf(workers'[w].uid)
                /\ \A id \in DraftsOf(workers'[w].uid) : workers'[w].cid <= id
       /\ \A w \in Workers :
             (workers[w].pc = "cartCount" /\ workers'[w].pc = "idle") =>
                /\ last'.op = "GetCompositionCart" /\ last'.code = 200
                /\ comps' = comps /\ items' = items
                /\ last'.cid = workers[w].cid
                /\ last'.count = Cardinality({r \in items : r.cid = last'.cid})
       /\ \A u \in Users :
             (last'.op \in {"FormComposition", "DeleteComposition"}
                /\ last'.code = 200 /\ last'.uid = u) =>
                GetCompositionCartDraft(u)' = 0
       /\ \A w \in Workers :
             (workers[w].pc = "idle" /\ workers'[w].op = "AddIntervalToComposition") =>
                (workers'[w].pc = "create" <=> DraftsOf(workers'[w].uid) = {})
       /\ \A w \in Workers :
             (workers[w].pc = "create" /\ workers'[w].pc # "create") =>
                /\ workers'[w].cid \notin DOMAIN comps
                /\ DOMAIN comps' = (DOMAIN comps) \cup {workers'[w].cid}
                /\ comps'[workers'[w].cid].status = Draft
                /\ comps'[workers'[w].cid].creator_id = workers[w].uid
                /\ \A id \in DOMAIN comps : comps'[id] = comps[id]
                /\ items' = items
       /\ (last'.op = "AddIntervalToComposition" /\ last'.code = 200) =>
             /\ comps' = comps
             /\ \A id \in DOMAIN comps :
                   id # last'.cid =>
                      {r \in items' : r.cid = id} = {r \in items : r.cid = id}
      ]_vars

\* the creator formed a composition of one row and put two rows into a new
\* one: the cart shows the new composition and its two rows
C37_Witness ==
    /\ last.op = "GetCompositionCart" /\ last.uid = 1
    /\ last.cid = 2 /\ last.count = 2
    /\ comps[1].status = Formed /\ Cardinality(RowsOf(1)) = 1
    /\ comps[2].status = Draft

----------------------------------------------------------------------------
(* Claims about the removal of an item (SpecRemove) *)

\* C24: a RemoveFromComposition request is refused by the handler, with no
\* row and no composition changed, when it names no composition or no
\* interval (the id is zero or missing: 400), the composition does not exist
\* (404), the requester is not its creator (403) or its status is not Draft
\* (403), as the handler reads it; otherwise its DELETE removes exactly the
\* row of the pair (composition, interval) and is answered 200, or, when the
\* pair has no row, is answered with an error and changes no row.
C24_RemoveExactlyOne ==
    [][\A w \in Workers :
        /\ (workers' = workers /\ last'.op = "RemoveFromComposition") =>
              /\ items' = items /\ comps' = comps
              /\ last'.code = (IF last'.cid = 0 \/ last'.req.iid = 0 THEN 400
                               ELSE IF last'.cid \notin DOMAIN comps THEN 404
                               ELSE 403)
              /\ (last'.code = 403) =>
                    \/ comps[last'.cid].creator_id # last'.uid
                    \/ comps[last'.cid].status # Draft
        /\ (workers[w].pc = "idle" /\ workers'[w].op = "RemoveFromComposition") =>
              /\ items' = items /\ comps' = comps
              /\ workers'[w].cid \in DOMAIN comps /\ workers'[w].iid # 0
              /\ comps[workers'[w].cid].creator_id = workers'[w].uid
              /\ comps[workers'[w].cid].status = Draft
        /\ (workers[w].pc = "itemDelete" /\ workers'[w] # workers[w]) =>
              /\ last'.op = "RemoveFromComposition"
              /\ comps' = comps
              /\ OtherRows(items', workers[w].cid, workers[w].iid)
                    = OtherRows(items, workers[w].cid, workers[w].iid)
              /\ IF ItemRows(workers[w].cid, workers[w].iid) = {}
                 THEN last'.code >= 400 /\ items' = items
                 ELSE /\ last'.code = 200
                      /\ {r \in items' : r.cid = workers[w].cid /\ r.iid = workers[w].iid} = {}
       ]_vars

\* the creator removed interval 1 from their Draft, which held both
\* intervals: the row of interval 2 is still there
C24_Witness ==
    /\ last.op = "RemoveFromComposition" /\ last.code = 200
    /\ last.req.iid = 1
    /\ comps[last.cid].creator_id = last.uid /\ comps[last.cid].status = Draft
    /\ ItemRows(last.cid, 1) = {}
    /\ ItemRows(last.cid, 2) # {}

----------------------------------------------------------------------------
(* Claims about PUT /compositions/:id (SpecFields) *)

\* C31 as stated: a PUT /compositions/:id request changes a composition only
\* when the requester is its creator and its status is Draft: the request
\* goes on to its UPDATE only then, a request that does not go on (by another
\* account, or on a composition that is no longer Draft) is answered 403 and
\* changes no composition, and the UPDATE of a request answered 200 writes a
\* row that is Draft and the requester's, changing in it the fields of the
\* body (to the values of the body) and date_update (to the current time),
\* and nothing else.
C31_AsStated ==
    [][/\ \A w \in Workers :
             (workers[w].pc = "idle" /\ workers'[w].pc = "fieldsUpdate") =>
                /\ workers'[w].cid \in DOMAIN comps
                /\ comps[workers'[w].cid].creator_id = workers'[w].uid
                /\ comps[workers'[w].cid].status = Draft
                /\ comps' = comps
       /\ (last'.op = "UpdateCompositionFields" /\ workers' = workers) =>
             /\ comps' = comps
             /\ last'.code = IF last'.cid \in DOMAIN comps THEN 403 ELSE 404
             /\ last'.cid \in DOMAIN comps =>
                   \/ comps[last'.cid].creator_id # last'.uid
                   \/ comps[last'.cid].status # Draft
       /\ \A w \in Workers :
             (workers[w].pc = "fieldsUpdate" /\ workers'[w].pc = "idle") =>
                LET id == workers[w].cid
                    upd == workers[w].upd
                IN /\ last'.op = "UpdateCompositionFields" /\ last'.code = 200
                   /\ comps[id].creator_id = workers[w].uid
                   /\ comps[id].status = Draft
                   /\ DOMAIN comps' = DOMAIN comps
                   /\ \A i \in DOMAIN comps : i # id => comps'[i] = comps[i]
                   /\ \A f \in DOMAIN comps[id] :
                         comps'[id][f] = IF f = "date_update" THEN now
                                         ELSE IF f \in DOMAIN upd THEN upd[f]
                                         ELSE comps[id][f]
      ]_vars

----------------------------------------------------------------------------
(* Claims about the moderator routes as routed (SpecModeratorRoute) *)

\* C32: a complete or a reject request that bears a token ValidateToken
\* accepts and whose is_moderator claim is false is answered 403 by
\* ModeratorOnly (or 500 by AuthMiddleware, when it cannot read its
\* configuration); the handler does not run: no composition changes (so the
\* status, moderator_id, date_finish and belonging of the composition the
\* request names are as they were) and no calculation is started.
C32_NonModeratorRefused ==
    [][/\ (/\ last'.op \in {"CompleteComposition", "RejectComposition"}
           /\ ValidateToken(last'.tok, JWTSecret)
           /\ ~TokenClaims(last'.tok).IsModerator) =>
             /\ workers' = workers
             /\ last'.code = IF "config failed" \in last'.log THEN 500 ELSE 403
             /\ comps' = comps
             /\ calculations' = calculations /\ last'.calc = {}
       /\ \A w \in Workers :
             workers'[w].pc \in {"completeUpdate", "rejectUpdate"} =>
                /\ TokenClaims(workers'[w].upd.tok).IsModerator
                /\ workers'[w].upd.ctx.is_moderator
      ]_vars

\* a reject request with the token of the account that is no moderator was
\* answered 403; the composition it names is Formed, with no moderator and no
\* date_finish
C32_Witness ==
    /\ last.op = "RejectComposition" /\ last.code = 403
    /\ last.uid = 1
    /\ \E i \in issued : i.tok.uid = 1 /\ ~i.tok.mod /\ ValidateToken(i.tok, JWTSecret)
    /\ last.cid \in DOMAIN comps
    /\ comps[last.cid].status = Formed
    /\ comps[last.cid].moderator_id = 0
    /\ comps[last.cid].date_finish = 0

----------------------------------------------------------------------------
(* Claims about the moderator columns (SpecSeq) *)

\* C36 as stated: in every state a composition has a moderator_id and a
\* date_finish exactly when its status is Completed or Rejected.
C36_AsStated ==
    \A id \in DOMAIN comps :
        /\ comps[id].moderator_id # 0 <=> comps[id].status \in {Completed, Rejected}
        /\ comps[id].date_finish # 0 <=> comps[id].status \in {Completed, Rejected}

----------------------------------------------------------------------------
(* Claims about moderation (SpecModerate) *)

\* the step answered a request of a moderator on the Formed composition id
ModeratorOnFormed(op, id) ==
    /\ last'.op = op /\ last'.cid = id
    /\ UserRow(last'.uid).IsModerator
    /\ comps[id].status = Formed

\* C13: a complete request by a moderator m on a Formed composition is
\* answered 200 and leaves the composition with status Completed,
\* moderator_id = m, date_finish set to the current time and belonging empty,
\* and starts one calculation request, which carries the composition's id.
C13_CompleteFormed ==
    [][\A id \in DOMAIN comps :
          ModeratorOnFormed("CompleteComposition", id) =>
             /\ last'.code = 200
             /\ comps'[id].status = Completed
             /\ comps'[id].moderator_id = last'.uid
             /\ comps'[id].date_finish = now /\ comps'[id].date_finish # 0
             /\ comps'[id].belonging = ""
             /\ last'.calc = {id}]_vars

\* a moderator completed a composition whose creator had given it a title:
\* the row is Completed with the moderator's id, belonging is empty and one
\* calculation request for it was started
C13_Witness ==
    /\ last.op = "CompleteComposition" /\ last.code = 200
    /\ last.calc = {last.cid}
    /\ comps[last.cid].status = Completed
    /\ comps[last.cid].moderator_id = 2
    /\ comps[last.cid].belonging = ""
    /\ comps[last.cid].title = "t"

\* C14: a reject request by a moderator m on a Formed composition is answered
\* 200, sets status Rejected, moderator_id = m and date_finish, leaves
\* belonging, title, creator_id, date_create and the item rows as they were,
\* and starts no calculation request.
C14_RejectFormed ==
    [][\A id \in DOMAIN comps :
          ModeratorOnFormed("RejectComposition", id) =>
             /\ last'.code = 200
             /\ comps'[id].status = Rejected
             /\ comps'[id].moderator_id = last'.uid
             /\ comps'[id].date_finish = now /\ comps'[id].date_finish # 0
             /\ comps'[id].belonging = comps[id].belonging
             /\ comps'[id].title = comps[id].title
             /\ comps'[id].creator_id = comps[id].creator_id
             /\ comps'[id].date_create = comps[id].date_create
             /\ items' = items
             /\ last'.calc = {}]_vars

\* a moderator rejected a composition that holds an item and whose belonging
\* and title the creator had filled in: both are still there
C14_Witness ==
    /\ last.op = "RejectComposition" /\ last.code = 200
    /\ last.calc = {}
    /\ comps[last.cid].status = Rejected
    /\ comps[last.cid].moderator_id = 2
    /\ comps[last.cid].belonging = "other"
    /\ comps[last.cid].title = "t"
    /\ RowsOf(last.cid) # {}

----------------------------------------------------------------------------
(* Claims about the calculation goroutine (SpecCalculation) *)

\* the compositions for which the step started a goroutine
CalculationsStarted ==
    {id \in BagToSet(calculations') :
        CopiesIn(id, calculations') > CopiesIn(id, calculations)}

\* C27: a complete request that is answered 200 has set the status Completed
\* and started one goroutine, and it is answered before anything is known of
\* the goroutine's POST; when the goroutine returns, whether the POST
\* succeeded, was answered with an error or failed, it changes no composition
\* and no item row (so the status stays Completed) and starts nothing; a
\* goroutine that never returns changes nothing either; and a goroutine is
\* started by a successful complete request only, never again for a POST
\* that failed.
C27_CalculationDetached ==
    [][/\ \A id \in DOMAIN comps :
             (last'.op = "CompleteComposition" /\ last'.cid = id /\ last'.code = 200) =>
                /\ comps'[id].status = Completed
                /\ last'.calc = {id}
                /\ calculations' = calculations (+) SetToBag({id})
       /\ (last'.op = "CompleteComposition" /\ last'.code # 200) =>
             (calculations' = calculations /\ last'.calc = {})
       /\ last'.op = "calculation" =>
             /\ BagIn(last'.cid, calculations)
             /\ calculations' = calculations (-) SetToBag({last'.cid})
             /\ comps' = comps /\ items' = items
       /\ CalculationsStarted # {} =>
             (last'.op = "CompleteComposition" /\ last'.code = 200)
      ]_vars

\* the POST of the goroutine of a completed composition failed: the goroutine
\* is gone, none has taken its place and the composition is still Completed
C27_Witness ==
    /\ last.op = "calculation" /\ last.log = {"call failed"}
    /\ calculations = EmptyBag
    /\ comps[last.cid].status = Completed
    /\ comps[last.cid].moderator_id = 2
    /\ comps[last.cid].belonging = ""

\* C40 as stated: a calculation request is sent only by a complete request
\* answered 200, for the composition it names and with that composition
\* stored as Completed; and a complete request that names no composition,
\* names one that is not Formed, or is not answered 200 sends none.
C40_AsStated ==
    [][/\ (last'.calc # {} \/ CalculationsStarted # {}) =>
             /\ last'.op = "CompleteComposition" /\ last'.code = 200
             /\ last'.calc = {last'.cid}
             /\ calculations' = calculations (+) SetToBag({last'.cid})
             /\ last'.cid \in DOMAIN comps'
             /\ comps'[last'.cid].status = Completed
       /\ (/\ last'.op = "CompleteComposition"
           /\ \/ last'.cid \notin DOMAIN comps
              \/ comps[last'.cid].status # Formed
              \/ last'.code # 200) =>
             (last'.calc = {} /\ calculations' = calculations)
      ]_vars

----------------------------------------------------------------------------
(* Claims about the columns of a composition (SpecColumns, SpecRepository) *)

\* C19: no step removes a row of compositions or changes the creator_id or
\* the date_create of a row; a row that a step inserts has the requester as
\* creator_id and the current time as date_create; and UpdateCompositionFields
\* called with a map that holds id, creator_id or date_create leaves the row
\* at its id with these two columns as they were, writing only the other
\* keys of the map and date_update.
C19_CreatorAndDateCreateFixed ==
    [][/\ Len(comps') >= Len(comps)
       /\ \A id \in DOMAIN comps :
             /\ comps'[id].creator_id = comps[id].creator_id
             /\ comps'[id].date_create = comps[id].date_create
       /\ \A id \in (DOMAIN comps') \ (DOMAIN comps) :
             /\ \E w \in Workers : workers[w].pc = "create"
                                     /\ comps'[id].creator_id = workers[w].uid
             /\ comps'[id].date_create = now
       /\ (last'.op = "Repository.UpdateCompositionFields" /\ last'.code = 0) =>
             /\ DOMAIN comps' = DOMAIN comps
             /\ \A f \in DOMAIN comps[last'.cid] :
                   f \notin {"title", "date_update"} =>
                       comps'[last'.cid][f] = comps[last'.cid][f]
             /\ comps'[last'.cid].date_update = now]_vars

\* UpdateCompositionFields was called with id, creator_id, date_create and a
\* title on a composition created one tick earlier: the title and date_update
\* are written, creator_id and date_create are those of the creation
C19_Witness ==
    /\ last.op = "Repository.UpdateCompositionFields" /\ last.code = 0
    /\ now = 2
    /\ comps[last.cid].title = "r"
    /\ comps[last.cid].date_update = 2
    /\ comps[last.cid].creator_id = 1
    /\ comps[last.cid].date_create = 1

\* C29: UpdateCompositionFields of the repository, called with an id that no
\* row of compositions has, returns an error (not nil) and leaves every row as
\* it was; called with the id of a row it returns nil and has changed that
\* one row in one UPDATE (date_update stamped, the other rows and the number
\* of rows as they were).
C29_UpdateFieldsNotFound ==
    [][last'.op = "Repository.UpdateCompositionFields" =>
          IF last'.cid \in DOMAIN comps
          THEN /\ last'.code = 0
               /\ DOMAIN comps' = DOMAIN comps
               /\ \A i \in DOMAIN comps : i # last'.cid => comps'[i] = comps[i]
               /\ comps'[last'.cid].date_update = now
          ELSE /\ last'.code = 500
               /\ comps' = comps]_vars

\* UpdateCompositionFields was called with an id that no row has while the
\* table held rows: it returned the error
C29_Witness ==
    /\ last.op = "Repository.UpdateCompositionFields" /\ last.code = 500
    /\ last.cid \notin DOMAIN comps /\ last.cid > 0
    /\ Len(comps) = MaxComp

\* C38 as stated: while a composition is Completed and its belonging holds a
\* classification (which only the callback can have written there), no step
\* other than an answer of ReceiveCalculationResult changes its belonging.
C38_AsStated ==
    [][\A id \in DOMAIN comps :
          (/\ comps[id].status = Completed
           /\ comps[id].belonging \in {Belongs, NotBelongs}
           /\ comps'[id].belonging # comps[id].belonging) =>
             last'.op = "ReceiveCalculationResult"]_vars

\* C39 as stated: in every state the belonging of every composition is empty
\* or one of the two classification strings.
C39_AsStated ==
    \A id \in DOMAIN comps : comps[id].belonging \in {"", Belongs, NotBelongs}

\* the step answered a callback on composition id with 200
CallbackSaved(id) ==
    /\ last'.op = "ReceiveCalculationResult" /\ last'.code = 200
    /\ last'.cid = id

\* C25: a ReceiveCalculationResult call that is answered 200 leaves belonging
\* equal to the reported result and date_update at the current time, and
\* leaves status, moderator_id, creator_id, title, date_finish and
\* date_create of the composition, the item rows and every other composition
\* as they were; so a second identical call finds belonging already equal to
\* its result and moves date_update only, and it would be answered 200 again.
C25_CallbackIdempotent ==
    [][\A id \in DOMAIN comps :
          CallbackSaved(id) =>
             /\ comps'[id].belonging = last'.req.result
             /\ comps'[id].date_update = now
             /\ \A f \in DOMAIN comps[id] :
                   f \notin {"belonging", "date_update"} => comps'[id][f] = comps[id][f]
             /\ \A j \in DOMAIN comps : j # id => comps'[j] = comps[j]
             /\ DOMAIN comps' = DOMAIN comps
             /\ items' = items
             /\ comps[id].belonging = last'.req.result =>
                   comps' = [comps EXCEPT ![id].date_update = now]
             /\ \A result \in Results, apiKey \in APIKeys :
                   (last'.req.result = result /\ last'.req.apiKey = apiKey) =>
                       /\ ReceiveCalculationResultCode(id, result, apiKey)' = 0
                       /\ ~UpdateCompositionFieldsErr(id)'
       ]_vars

\* a callback on a Completed composition that has a title and items, one tick
\* after a moderator completed it: answered 200, belonging is the reported
\* result, date_finish is that of the completion, date_update the current time
C25_Witness ==
    /\ last.op = "ReceiveCalculationResult" /\ last.code = 200
    /\ now = 2
    /\ comps[last.cid].status = Completed
    /\ comps[last.cid].belonging = NotBelongs
    /\ last.req.result = NotBelongs
    /\ comps[last.cid].title = "t"
    /\ comps[last.cid].moderator_id = 2
    /\ comps[last.cid].date_finish = 1
    /\ comps[last.cid].date_update = 2
    /\ RowsOf(last.cid) # {}

----------------------------------------------------------------------------
(* Claims about the listing (SpecList) *)

\* the compositions a listing may show at all, and those its filters select
Listable == {i \in DOMAIN comps : comps[i].status \notin {Draft, Deleted}}
Selected ==
    {i \in Listable :
        /\ (last.req.status # "" => comps[i].status = last.req.status)
        /\ (last.req.dateFrom # 0 => comps[i].date_create >= last.req.dateFrom)
        /\ (last.req.dateTo # 0 => comps[i].date_create <= last.req.dateTo)}

\* C8: GetCompositions for a non-moderator returns only compositions created by
\* that user (exactly those of them that are neither Draft nor Deleted and pass
\* the filters), for every status filter and for none; for a moderator it
\* returns every composition that is neither Draft nor Deleted and passes the
\* filters; a Draft or Deleted composition is in no result.
C8_ListingVisibility ==
    last.op = "GetCompositions" =>
        /\ last.code = 200
        /\ last.list \subseteq Listable
        /\ IF last.ctx.is_moderator
           THEN last.list = Selected
           ELSE last.list = {i \in Selected : comps[i].creator_id = last.ctx.user_id}

\* a non-moderator listed without a status filter while a Formed composition of
\* another creator, a Formed one of their own and nothing else existed
C8_Witness ==
    /\ last.op = "GetCompositions"
    /\ ~last.ctx.is_moderator
    /\ last.req.status = "" /\ last.req.dateFrom = 0 /\ last.req.dateTo = 0
    /\ \E i, j \in DOMAIN comps :
          /\ comps[i].creator_id = last.ctx.user_id /\ comps[i].status = Formed
          /\ comps[j].creator_id # last.ctx.user_id /\ comps[j].status = Formed
          /\ last.list = {i}

----------------------------------------------------------------------------
(* Claims about the view by id (SpecView) *)

\* C20: GetComposition by id answers a non-moderator with the composition only
\* when the requester is its creator, and otherwise with 403 and no field of
\* it; it answers a moderator with every existing composition, whatever its
\* status and creator; the 200 answer holds the row as the request read it
\* and the intervals stored when it answers; an id that no composition has is
\* answered 404 with no body; the request changes nothing.
C20_ViewOnlyOwnOrModerator ==
    [][\A w \in Workers :
        /\ (workers[w].pc = "idle" /\ workers'[w].pc = "viewItems") =>
              /\ workers'[w].cid \in DOMAIN comps
              /\ workers'[w].upd.row = comps[workers'[w].cid]
              /\ comps' = comps /\ items' = items
        /\ (last'.op = "GetComposition" /\ workers' = workers) =>
              /\ last'.cid \notin DOMAIN comps
              /\ last'.code = 404 /\ last'.view = {}
              /\ comps' = comps /\ items' = items
        /\ (workers[w].pc = "viewItems" /\ workers'[w].pc = "idle") =>
              /\ last'.op = "GetComposition" /\ last'.cid = workers[w].cid
              /\ comps' = comps /\ items' = items
              /\ IF \/ last'.ctx.is_moderator
                    \/ comps[last'.cid].creator_id = last'.ctx.user_id
                 THEN /\ last'.code = 200
                      /\ last'.view = {[id |-> last'.cid, row |-> workers[w].upd.row,
                                        intervals |-> RowsOf(last'.cid)]}
                 ELSE last'.code = 403 /\ last'.view = {}
       ]_vars

\* a non-moderator who has a composition of their own asked for the Formed
\* composition of another creator and was answered 403 with no body
C20_Witness ==
    /\ last.op = "GetComposition" /\ last.code = 403 /\ last.view = {}
    /\ ~last.ctx.is_moderator
    /\ comps[last.cid].creator_id # last.ctx.user_id
    /\ comps[last.cid].status = Formed
    /\ \E i \in DOMAIN comps : comps[i].creator_id = last.ctx.user_id

----------------------------------------------------------------------------
(* Claims about the calculation callback (SpecCallback) *)

\* the step answered a callback whose api_key and result are in order
GoodCallback ==
    /\ last'.op = "ReceiveCalculationResult"
    /\ last'.req.apiKey = expectedAPIKey
    /\ last'.req.result \in {Belongs, NotBelongs}

\* C9 (as the code has it): a callback with the correct api_key, an allowed
\* result and a non-zero composition id that no row has is answered 404 and
\* changes no composition; with the id 0 (or none) the body does not bind and
\* the answer is 400, again with no change.
C9_UnknownIdNotFound ==
    [][(GoodCallback /\ last'.cid \notin DOMAIN comps)
          => /\ last'.code = (IF last'.cid = 0 THEN 400 ELSE 404)
             /\ comps' = comps /\ items' = items]_vars

\* C9 as stated: every callback with the correct api_key, an allowed result and
\* an id that no composition has is answered 404 and changes no composition
C9_AsStated ==
    [][(GoodCallback /\ last'.cid \notin DOMAIN comps)
          => (last'.code = 404 /\ comps' = comps)]_vars

\* a callback for an id past the existing compositions was answered 404
C9_Witness ==
    /\ last.op = "ReceiveCalculationResult" /\ last.code = 404
    /\ last.req.apiKey = expectedAPIKey
    /\ last.req.result = Belongs
    /\ comps # <<>>
    /\ last.cid = Len(comps) + 1

\* the step answered a callback whose api_key is not the shared secret
WrongKeyCallback ==
    /\ last'.op = "ReceiveCalculationResult"
    /\ last'.req.apiKey # expectedAPIKey

\* C10 (as the code has it): a callback whose api_key differs from the shared
\* secret changes no composition; it is answered 401 when the body binds
\* (non-zero id, non-empty result and api_key), whatever the result is and
\* whether or not the id exists, and 400 when the body does not bind.
C10_WrongKeyUnauthorized ==
    [][WrongKeyCallback
          => /\ comps' = comps /\ items' = items
             /\ last'.code =
                  (IF last'.cid = 0 \/ last'.req.result = "" \/ last'.req.apiKey = ""
                   THEN 400 ELSE 401)]_vars

\* C10 as stated: every callback whose api_key differs from the shared secret
\* is answered 401 and changes no composition
C10_AsStated ==
    [][WrongKeyCallback => (last'.code = 401 /\ comps' = comps)]_vars

\* a callback with a wrong key, an allowed result and the id of a Completed
\* composition was answered 401
C10_Witness ==
    /\ last.op = "ReceiveCalculationResult" /\ last.code = 401
    /\ last.req.apiKey = "WRONG"
    /\ last.req.result = Belongs
    /\ last.cid \in DOMAIN comps
    /\ comps[last.cid].status = Completed
    /\ comps[last.cid].belonging = ""

\* the step answered a callback with the shared secret and a result that is
\* not one of the two classification strings
BadResultCallback ==
    /\ last'.op = "ReceiveCalculationResult"
    /\ last'.req.apiKey = expectedAPIKey
    /\ last'.req.result \notin {Belongs, NotBelongs}

\* C26: a callback with the correct api_key and a result that is not one of
\* the two allowed classification strings is answered 400 and changes no
\* composition and no item row, whether or not the composition id exists.
C26_BadResultRejected ==
    [][BadResultCallback
          => (last'.code = 400 /\ comps' = comps /\ items' = items)]_vars

\* a callback with the correct key and another string as result, for a
\* Completed composition, was answered 400 and belonging is still empty
C26_Witness ==
    /\ last.op = "ReceiveCalculationResult" /\ last.code = 400
    /\ last.req.apiKey = expectedAPIKey
    /\ last.req.result = "other"
    /\ last.cid \in DOMAIN comps
    /\ comps[last.cid].status = Completed
    /\ comps[last.cid].belonging = ""

====
